---- MODULE Spec2Model ----
(***************************************************************************)
(* A model of the retrieval engine of backend/rag_engine.py: the flat      *)
(* vector index, the parallel document and metadata lists, their three     *)
(* persisted artifacts, search with re-ranking, context assembly and       *)
(* online insertion.                                                       *)
(*                                                                         *)
(* Texts are strings.  An embedding is a vector of `dimension' integer     *)
(* coordinates counted in half units, so that a squared Euclidean distance *)
(* d stands for d/4 and the similarity 1/(1 + d/4) is the exact rational   *)
(* 4/(4 + d).  Importances, thresholds and effectiveness are counted in    *)
(* tenths (7 stands for 0.7).                                              *)
(***************************************************************************)
EXTENDS Integers, Sequences, FiniteSets, TLC

VARIABLES
    phase,      \* "unloaded" | "ready" | "crashed": the engine's process
    index,      \* self.index: the vectors of the flat index, in insertion order
    documents,  \* self.documents
    metadata,   \* self.metadata
    dIndex,     \* the file <vector_db_path>.index
    dDocs,      \* the file <vector_db_path>.docs
    dMeta,      \* the file <vector_db_path>.meta
    clock,      \* datetime.now(): the number of add_document calls so far
    added,      \* history: the entries handed to the store since it was built
    saved,      \* history: the in-memory store at the last completed save
    boot,       \* history: what the last initialization found and did
    lastCall,   \* the last call made on the engine and its arguments
    outcome,    \* "none" | "ok" | "error": how the last call ended
    results,    \* the list returned by the last search
    context,    \* the string returned by the last get_context_for_query
    conversation_context,  \* chatbot.conversation_context: session id -> entry
    turn,       \* the last get_ai_response: its arguments, what it returned, what it did
    threads,    \* the add_document calls in progress on the request threads
    requests    \* the get_ai_response calls in progress on the request threads

engineVars == <<phase, index, documents, metadata, dIndex, dDocs, dMeta, clock,
                added, saved, boot, lastCall, outcome, results, context>>

chatVars == <<conversation_context, turn, requests>>

vars == <<phase, index, documents, metadata, dIndex, dDocs, dMeta, clock,
          added, saved, boot, lastCall, outcome, results, context,
          conversation_context, turn, threads, requests>>

(***************************************************************************)
(* Bounds of the model.                                                    *)
(***************************************************************************)
\* the number of add_document calls of one behaviour
MaxAdds == 2
\* the number of coordinates of an embedding (384 in the program)
dimension == 2

(***************************************************************************)
(* Texts.                                                                  *)
(***************************************************************************)
TextPersonal ==
    "Sai Teja Reddy is an AI/ML Engineer with 5+ years of experience in developing and deploying machine learning solutions. Currently pursuing Master's in AI at Oklahoma Christian University."

TextCertifications ==
    "Certifications: Salesforce AI Associate (2024), Salesforce AI Specialist (2024), AWS Certified Developer - Associate"

TextAws == "Sai holds the AWS Certified Developer - Associate certification."

QueryWho == "Who is Sai?"
QueryCerts == "Which certifications does he have?"
QueryWork == "his work at cash4you?"
QueryWeather == "weather"
ResponseShort == "He works on ML."

\* f"Q: {query}\nA: {response}"
QAText(query, response) == "Q: " \o query \o "\nA: " \o response

\* the in-code knowledge base, abridged to two of its 27 entries (the first and
\* the fifteenth)
KnowledgeBase ==
    << [content |-> TextPersonal, category |-> "personal",
        keywords |-> <<"introduction", "who", "about">>, importance |-> 10],
       [content |-> TextCertifications, category |-> "certifications",
        keywords |-> <<"certification", "salesforce", "aws", "certified">>,
        importance |-> 9] >>

(***************************************************************************)
(* The embedder, self.model.encode: a fixed, total mapping from text to a  *)
(* vector, not injective.                                                  *)
(***************************************************************************)
EmbedXY(text) ==
    CASE text = TextPersonal       -> <<0, 0>>
      [] text = QueryWho           -> <<0, 0>>
      [] text = TextCertifications -> <<1, 0>>
      [] text = QueryCerts         -> <<1, 0>>
      [] text = TextAws            -> <<1, 0>>
      [] text = QueryWeather       -> <<3, 3>>
      [] OTHER                     -> <<Len(text) % 2, 1>>

Embed(text) ==
    [i \in 1..dimension |-> IF i <= 2 THEN EmbedXY(text)[i] ELSE 0]

(***************************************************************************)
(* The flat L2 index.                                                      *)
(***************************************************************************)
RECURSIVE SumSq(_, _, _)
SumSq(u, v, i) ==
    IF i = 0 THEN 0 ELSE (u[i] - v[i]) * (u[i] - v[i]) + SumSq(u, v, i - 1)

\* squared Euclidean distance, in quarter units
Distance(u, v) == SumSq(u, v, Len(u))

\* the distances of the stored vectors 1..n to the query vector
RECURSIVE DistancesTo(_, _, _)
DistancesTo(idx, qv, n) ==
    IF n = 0 THEN <<>> ELSE Append(DistancesTo(idx, qv, n - 1), Distance(idx[n], qv))

\* the scan keeping the largest distances instead of the smallest
RECURSIVE FarthestFirst(_, _)
FarthestFirst(dists, ids) ==
    IF ids = {} THEN <<>>
    ELSE LET best == CHOOSE i \in ids :
                        \A j \in ids :
                            \/ dists[i + 1] > dists[j + 1]
                            \/ dists[i + 1] = dists[j + 1] /\ i <= j
         IN  <<[id |-> best, dist |-> dists[best + 1]]>>
             \o FarthestFirst(dists, ids \ {best})

\* the labels (0-based) of ids nearest first; equal distances by ascending label
RECURSIVE NearestFirst(_, _)
NearestFirst(dists, ids) ==
    IF ids = {} THEN <<>>
    ELSE LET best == CHOOSE i \in ids :
                        \A j \in ids :
                            \/ dists[i + 1] < dists[j + 1]
                            \/ dists[i + 1] = dists[j + 1] /\ i <= j
         IN  <<[id |-> best, dist |-> dists[best + 1]]>>
             \o NearestFirst(dists, ids \ {best})

\* n result slots no stored vector fills: label -1, the largest distance
RECURSIVE Padding(_)
Padding(n) ==
    IF n <= 0 THEN <<>> ELSE <<[id |-> -1, dist |-> 1000000]>> \o Padding(n - 1)

\* the scan stopping one result short of k
IndexSearchOneLess(idx, qv, k) ==
    LET order == NearestFirst(DistancesTo(idx, qv, Len(idx)), 0..(Len(idx) - 1))
    IN  IF Len(order) >= k THEN SubSeq(order, 1, k - 1) \o Padding(1)
        ELSE order \o Padding(k - Len(order))

\* index.search(x, k) for k > 0: k (label, distance) pairs, nearest first
IndexSearch(idx, qv, k) ==
    LET order == NearestFirst(DistancesTo(idx, qv, Len(idx)), 0..(Len(idx) - 1))
    IN  IF Len(order) >= k THEN SubSeq(order, 1, k)
        ELSE order \o Padding(k - Len(order))

(***************************************************************************)
(* search                                                                  *)
(***************************************************************************)
\* similarity = 1 / (1 + distance), as the fraction <<numerator, denominator>>
Similarity(dist) == <<4, 4 + dist>>

\* the comparison turned round: similarity <= threshold
ClearsThresholdBelow(sim, threshold) == 10 * sim[1] <= threshold * sim[2]

\* similarity >= threshold, the threshold in tenths
ClearsThreshold(sim, threshold) == 10 * sim[1] >= threshold * sim[2]

\* key(a) >= key(b) for key = importance * similarity
KeyGeq(a, b) ==
    a.meta.importance * a.sim[1] * b.sim[2] >= b.meta.importance * b.sim[1] * a.sim[2]

KeyGt(a, b) == ~KeyGeq(b, a)

\* the insertion that puts an entry before the entries of equal key
RECURSIVE InsertByKeyBeforeEquals(_, _)
InsertByKeyBeforeEquals(sorted, r) ==
    IF sorted = <<>> THEN <<r>>
    ELSE IF KeyGeq(r, Head(sorted)) THEN <<r>> \o sorted
    ELSE <<Head(sorted)>> \o InsertByKeyBeforeEquals(Tail(sorted), r)

\* list.sort(key, reverse=True): descending by key, equal keys keep their order
RECURSIVE InsertByKey(_, _)
InsertByKey(sorted, r) ==
    IF sorted = <<>> THEN <<r>>
    ELSE IF KeyGt(r, Head(sorted)) THEN <<r>> \o sorted
    ELSE <<Head(sorted)>> \o InsertByKey(Tail(sorted), r)

\* the sort without reverse=True: ascending by key
RECURSIVE SortByKeyAscending(_)
SortByKeyAscending(rs) ==
    IF rs = <<>> THEN <<>>
    ELSE LET rest == SortByKeyAscending(SubSeq(rs, 1, Len(rs) - 1))
             r == rs[Len(rs)]
             below == SelectSeq(rest, LAMBDA x : KeyGeq(r, x))
             above == SelectSeq(rest, LAMBDA x : ~KeyGeq(r, x))
         IN  below \o <<r>> \o above

RECURSIVE SortByKey(_)
SortByKey(rs) ==
    IF rs = <<>> THEN <<>>
    ELSE InsertByKey(SortByKey(SubSeq(rs, 1, Len(rs) - 1)), rs[Len(rs)])

\* the candidates the loop of search keeps, in the order the index returned them
RECURSIVE Surviving(_, _, _, _, _)
Surviving(cands, docs, meta, threshold, n) ==
    IF n = 0 THEN <<>>
    ELSE LET c == cands[n]
             rest == Surviving(cands, docs, meta, threshold, n - 1)
         IN  IF c.id >= 0 /\ ClearsThreshold(Similarity(c.dist), threshold)
             THEN Append(rest, [doc |-> docs[c.id + 1], meta |-> meta[c.id + 1],
                                sim |-> Similarity(c.dist)])
             ELSE rest

\* the lookup without the test idx >= 0: label -1 reads the last element
\* of a list, and raises on an empty one
LookupFailsAnyLabel(cands, docs, meta, threshold) ==
    \E n \in 1..Len(cands) :
        /\ ClearsThreshold(Similarity(cands[n].dist), threshold)
        /\ \/ cands[n].id + 1 > Len(docs) \/ cands[n].id + 1 > Len(meta)
           \/ cands[n].id < 0 /\ (Len(docs) = 0 \/ Len(meta) = 0)

\* a kept candidate whose label has no document or no metadata: IndexError
LookupFails(cands, docs, meta, threshold) ==
    \E n \in 1..Len(cands) :
        /\ cands[n].id >= 0
        /\ ClearsThreshold(Similarity(cands[n].dist), threshold)
        /\ (cands[n].id + 1 > Len(docs) \/ cands[n].id + 1 > Len(meta))

\* search(query, k, threshold) on a store: whether it raises, and its list
SearchOp(idx, docs, meta, query, k, threshold) ==
    IF k <= 0 THEN [raised |-> TRUE, list |-> <<>>]
    ELSE LET cands == IndexSearch(idx, Embed(query), k)
         IN  IF LookupFails(cands, docs, meta, threshold)
             THEN [raised |-> TRUE, list |-> <<>>]
             ELSE [raised |-> FALSE,
                   list |-> SortByKey(Surviving(cands, docs, meta, threshold, k))]

(***************************************************************************)
(* Strings: str.upper, str.lower, str.join.                                *)
(***************************************************************************)
LowerLetters == <<"a", "b", "c", "d", "e", "f", "g", "h", "i", "j", "k", "l", "m",
                  "n", "o", "p", "q", "r", "s", "t", "u", "v", "w", "x", "y", "z">>
UpperLetters == <<"A", "B", "C", "D", "E", "F", "G", "H", "I", "J", "K", "L", "M",
                  "N", "O", "P", "Q", "R", "S", "T", "U", "V", "W", "X", "Y", "Z">>
Digits == {"0", "1", "2", "3", "4", "5", "6", "7", "8", "9"}

CharAt(s, i) == SubSeq(s, i, i)

UpperChar(c) ==
    IF \E i \in 1..Len(LowerLetters) : LowerLetters[i] = c
    THEN UpperLetters[CHOOSE i \in 1..Len(LowerLetters) : LowerLetters[i] = c]
    ELSE c

LowerChar(c) ==
    IF \E i \in 1..Len(UpperLetters) : UpperLetters[i] = c
    THEN LowerLetters[CHOOSE i \in 1..Len(UpperLetters) : UpperLetters[i] = c]
    ELSE c

RECURSIVE Upper(_)
Upper(s) ==
    IF Len(s) = 0 THEN ""
    ELSE UpperChar(CharAt(s, 1)) \o Upper(SubSeq(s, 2, Len(s)))

RECURSIVE Lower(_)
Lower(s) ==
    IF Len(s) = 0 THEN ""
    ELSE LowerChar(CharAt(s, 1)) \o Lower(SubSeq(s, 2, Len(s)))

\* sep.join(parts)
RECURSIVE Join(_, _)
Join(parts, sep) ==
    IF parts = <<>> THEN ""
    ELSE IF Len(parts) = 1 THEN parts[1]
    ELSE parts[1] \o sep \o Join(Tail(parts), sep)

(***************************************************************************)
(* get_context_for_query                                                   *)
(***************************************************************************)
\* the defaults of search: k of get_context_for_query's call, and threshold
DefaultK == 5
DefaultThreshold == 7
\* a partial document is added only when more than this much budget remains
MeaningfulRemainder == 100
\* the "..." appended to a truncated document
Ellipsis == "..."

\* the categories of the knowledge base and of update_from_conversation
Categories ==
    {"personal", "certifications", "experience", "skills", "projects", "education",
     "general"}

\* str.upper tabulated on the categories
UpperTable == [c \in Categories |-> Upper(c)]

\* meta['category'].upper()
CategoryTag(category) ==
    IF category \in Categories THEN UpperTable[category] ELSE Upper(category)

Block(r) == "[" \o CategoryTag(r.meta.category) \o "] " \o r.doc

TruncatedBlock(r, remaining) ==
    "[" \o CategoryTag(r.meta.category) \o "] " \o SubSeq(r.doc, 1, remaining)
    \o Ellipsis

\* the loop over the results: the parts collected from result n on
RECURSIVE ContextParts(_, _, _, _)
ContextParts(rs, n, total_length, max_context_length) ==
    IF n > Len(rs) THEN <<>>
    ELSE IF total_length + Len(rs[n].doc) <= max_context_length
    THEN <<Block(rs[n])>>
         \o ContextParts(rs, n + 1, total_length + Len(rs[n].doc), max_context_length)
    ELSE IF max_context_length - total_length > MeaningfulRemainder
    THEN <<TruncatedBlock(rs[n], max_context_length - total_length)>>
    ELSE <<>>

\* get_context_for_query(query, max_context_length): whether it raises, its string
ContextOp(idx, docs, meta, query, max_context_length) ==
    LET found == SearchOp(idx, docs, meta, query, DefaultK, DefaultThreshold)
    IN  IF found.raised THEN [raised |-> TRUE, text |-> ""]
        ELSE IF found.list = <<>> THEN [raised |-> FALSE, text |-> ""]
        ELSE [raised |-> FALSE,
              text |-> Join(ContextParts(found.list, 1, 0, max_context_length), "\n\n")]

(***************************************************************************)
(* extract_keywords and the category of update_from_conversation           *)
(***************************************************************************)
IsLetter(c) == \E i \in 1..Len(LowerLetters) : LowerLetters[i] = c
\* \w of the regular expression, on lowercased ASCII text
IsWordChar(c) == IsLetter(c) \/ c \in Digits \/ c = "_"

\* re.findall(r'\b[a-z]+\b', s): the maximal runs of word characters of s that
\* consist of letters only, left to right; run is the run being read
RECURSIVE FindWords(_, _, _, _)
FindWords(s, i, run, letters) ==
    IF i > Len(s)
    THEN IF run # "" /\ letters THEN <<run>> ELSE <<>>
    ELSE LET c == CharAt(s, i)
         IN  IF IsWordChar(c)
             THEN FindWords(s, i + 1, run \o c, letters /\ IsLetter(c))
             ELSE (IF run # "" /\ letters THEN <<run>> ELSE <<>>)
                  \o FindWords(s, i + 1, "", TRUE)

stop_words == {"the", "is", "at", "which", "on", "and", "a", "an", "as", "are",
               "was", "were", "been", "be", "have", "has", "had", "do", "does",
               "did", "will", "would", "should", "could", "may", "might", "must",
               "can"}

\* line 359: the words kept, in the order of the text, repeats included
KeptWords(text) ==
    SelectSeq(FindWords(Lower(text), 1, "", TRUE),
              LAMBDA w : w \notin stop_words /\ Len(w) > 2)

\* the keywords kept before deduplication
KeywordSet(text) ==
    LET words == FindWords(Lower(text), 1, "", TRUE)
    IN  {words[i] : i \in {j \in 1..Len(words) :
                              words[j] \notin stop_words /\ Len(words[j]) > 2}}

\* a sequence without the repeats of its elements
RECURSIVE Distinct(_)
Distinct(ws) ==
    IF ws = <<>> THEN <<>>
    ELSE LET rest == Distinct(SubSeq(ws, 1, Len(ws) - 1))
         IN  IF \E i \in 1..Len(rest) : rest[i] = ws[Len(ws)] THEN rest
             ELSE Append(rest, ws[Len(ws)])

\* the first n elements of the sequence u read from place r + 1 on, round
\* the end, forwards or backwards
Rotated(u, r, forwards, n) ==
    [i \in 1..n |-> IF forwards THEN u[((r + i - 1) % Len(u)) + 1]
                               ELSE u[Len(u) - ((r + i - 1) % Len(u))]]

\* the cap of extract_keywords
MaxKeywords == 10
\* the largest set of keywords of which every order is tried
MaxPermuted == 3

\* list(set(keywords)) without the cap
KeywordListsUncapped(text) ==
    LET u == Distinct(KeptWords(text))
    IN  IF u = <<>> THEN {<<>>}
        ELSE {Rotated(u, r, f, Len(u)) : r \in 0..(Len(u) - 1), f \in BOOLEAN}

\* list(set(keywords))[:10]: the order of a set is not fixed, so every list of
\* min(10, n) distinct keywords is a possible value.  For a set of more than
\* MaxPermuted keywords the orders tried are those of the text read round
\* from any of its keywords, forwards or backwards.
KeywordLists(text) ==
    LET ks == KeywordSet(text)
        n == IF Cardinality(ks) < MaxKeywords THEN Cardinality(ks) ELSE MaxKeywords
        u == Distinct(KeptWords(text))
    IN  IF Cardinality(ks) <= MaxPermuted
        THEN {s \in [1..n -> ks] : \A i, j \in 1..n : s[i] = s[j] => i = j}
        ELSE {Rotated(u, r, f, n) : r \in 0..(Len(u) - 1), f \in BOOLEAN}

category_keywords ==
    << [cat |-> "experience",
        triggers |-> {"work", "job", "ericsson", "cash4you", "experience"}],
       [cat |-> "skills",
        triggers |-> {"skill", "technology", "framework", "language", "tool"}],
       [cat |-> "projects",
        triggers |-> {"project", "built", "developed", "created"}],
       [cat |-> "education",
        triggers |-> {"education", "degree", "university", "study"}],
       [cat |-> "personal",
        triggers |-> {"hobby", "interest", "personal", "like"}] >>

\* the loop without its break: the last category with a trigger among the
\* keywords
CategoryFromLast(keywords, n) ==
    LET hits == {m \in n..Len(category_keywords) :
                    \E i \in 1..Len(keywords) :
                        keywords[i] \in category_keywords[m].triggers}
    IN  IF hits = {} THEN "general"
        ELSE category_keywords[CHOOSE m \in hits : \A h \in hits : h <= m].cat

\* the first category one of whose triggers is among the keywords, else general
RECURSIVE CategoryFrom(_, _)
CategoryFrom(keywords, n) ==
    IF n > Len(category_keywords) THEN "general"
    ELSE IF \E i \in 1..Len(keywords) : keywords[i] \in category_keywords[n].triggers
    THEN category_keywords[n].cat
    ELSE CategoryFrom(keywords, n + 1)

\* update_from_conversation learns only above this effectiveness
LearningThreshold == 7

(***************************************************************************)
(* The persisted artifacts.  A file is [exists, bytes]; bytes is the       *)
(* stream its writer produced, cut short when the write was interrupted.   *)
(***************************************************************************)
NoFile == [exists |-> FALSE, bytes |-> <<>>]

Token(op, arg) == [op |-> op, arg |-> arg]

\* pickle.dump(list, f): the opcode stream of a list; blank is the argument of
\* the opcodes that carry none
PickleDump(list, blank) ==
    IF list = <<>>
    THEN <<Token("PROTO", blank), Token("EMPTY_LIST", blank), Token("STOP", blank)>>
    ELSE <<Token("PROTO", blank), Token("EMPTY_LIST", blank), Token("MARK", blank)>>
         \o [i \in 1..Len(list) |-> Token("ITEM", list[i])]
         \o <<Token("APPENDS", blank), Token("STOP", blank)>>

\* the stream is a whole pickle of a list
PickleWellFormed(bytes) ==
    /\ Len(bytes) >= 3
    /\ bytes[1].op = "PROTO"
    /\ bytes[2].op = "EMPTY_LIST"
    /\ bytes[Len(bytes)].op = "STOP"
    /\ \/ Len(bytes) = 3
       \/ /\ Len(bytes) >= 6
          /\ bytes[3].op = "MARK"
          /\ bytes[Len(bytes) - 1].op = "APPENDS"
          /\ \A i \in 4..(Len(bytes) - 2) : bytes[i].op = "ITEM"

\* pickle.load(f) of a well-formed stream
PickleLoad(bytes) ==
    IF Len(bytes) = 3 THEN <<>>
    ELSE [i \in 1..(Len(bytes) - 5) |-> bytes[i + 3].arg]

RECURSIVE Flatten(_)
Flatten(vectors) ==
    IF vectors = <<>> THEN <<>> ELSE Head(vectors) \o Flatten(Tail(vectors))

\* faiss.write_index of a flat index: d, ntotal, then the coordinates in a row
WriteIndex(idx) == <<dimension, Len(idx)>> \o Flatten(idx)

IndexWellFormed(bytes) ==
    /\ Len(bytes) >= 2
    /\ Len(bytes) = 2 + bytes[1] * bytes[2]

\* the reader starting one place early, inside the header
ReadIndexShifted(bytes) ==
    [i \in 1..bytes[2] |-> SubSeq(bytes, 1 + (i - 1) * bytes[1] + 1, 1 + i * bytes[1])]

\* faiss.read_index of a well-formed stream
ReadIndex(bytes) ==
    [i \in 1..bytes[2] |-> SubSeq(bytes, 2 + (i - 1) * bytes[1] + 1, 2 + i * bytes[1])]

BlankDoc == ""
BlankMeta == [category |-> "", keywords |-> <<>>, importance |-> 0, index |-> -1]

(***************************************************************************)
(* Faults of a save.  kind "io": the write of file `at' raises and the     *)
(* call ends with the exception; kind "kill": the process dies there.      *)
(* partial: the file was opened and part of the stream reached it, else    *)
(* the file is as it was.                                                  *)
(***************************************************************************)
NoFault == [kind |-> "none", at |-> "none", partial |-> FALSE]

Faults ==
    {NoFault} \cup [kind : {"io", "kill"}, at : {"index", "docs", "meta"},
                    partial : BOOLEAN]

\* faults of add_document before it persists: the embedding call raises, or
\* the index rejects a vector that has not its dimension
EarlyFaults ==
    { [kind |-> "encode", at |-> "none", partial |-> FALSE],
      [kind |-> "dimension", at |-> "none", partial |-> FALSE] }

Stage(name) == CASE name = "index" -> 1 [] name = "docs" -> 2 [] name = "meta" -> 3
                 [] OTHER -> 4

Prefix(bytes) == SubSeq(bytes, 1, Len(bytes) \div 2)

\* what one file holds after save_vector_db under fault
FileAfterSave(name, old, bytes, fault) ==
    IF Stage(name) < Stage(fault.at) THEN [exists |-> TRUE, bytes |-> bytes]
    ELSE IF Stage(name) = Stage(fault.at) /\ fault.partial
    THEN [exists |-> TRUE, bytes |-> Prefix(bytes)]
    ELSE old

\* save_vector_db without its metadata write
SaveVectorDbSkipMeta(idx, docs, meta, fault) ==
    [dIndex |-> FileAfterSave("index", dIndex, WriteIndex(idx), fault),
     dDocs  |-> FileAfterSave("docs", dDocs, PickleDump(docs, BlankDoc), fault),
     dMeta  |-> dMeta]

\* save_vector_db: the index, then the documents, then the metadata
SaveVectorDb(idx, docs, meta, fault) ==
    [dIndex |-> FileAfterSave("index", dIndex, WriteIndex(idx), fault),
     dDocs  |-> FileAfterSave("docs", dDocs, PickleDump(docs, BlankDoc), fault),
     dMeta  |-> FileAfterSave("meta", dMeta, PickleDump(meta, BlankMeta), fault)]

(***************************************************************************)
(* The store in memory.                                                    *)
(***************************************************************************)
EmptyStore == [index |-> <<>>, documents |-> <<>>, metadata |-> <<>>]

\* populate_knowledge_base on the empty store
PopulateKnowledgeBase ==
    [index |-> [i \in 1..Len(KnowledgeBase) |-> Embed(KnowledgeBase[i].content)],
     documents |-> [i \in 1..Len(KnowledgeBase) |-> KnowledgeBase[i].content],
     metadata |-> [i \in 1..Len(KnowledgeBase) |->
                      [category |-> KnowledgeBase[i].category,
                       keywords |-> KnowledgeBase[i].keywords,
                       importance |-> KnowledgeBase[i].importance,
                       index |-> i - 1]]]

\* add_document without its index.add
AppendDocumentSkipIndex(idx, docs, meta, entry, now) ==
    [index |-> idx,
     documents |-> Append(docs, entry.content),
     metadata |-> Append(meta, [category |-> entry.category,
                                keywords |-> entry.keywords,
                                importance |-> entry.importance,
                                index |-> Len(Append(docs, entry.content)) - 1,
                                added_at |-> now])]

\* add_document recording the length of the list where the code records
\* the position of the last element
AppendDocumentOrdinalLength(idx, docs, meta, entry, now) ==
    [index |-> Append(idx, Embed(entry.content)),
     documents |-> Append(docs, entry.content),
     metadata |-> Append(meta, [category |-> entry.category,
                                keywords |-> entry.keywords,
                                importance |-> entry.importance,
                                index |-> Len(Append(docs, entry.content)),
                                added_at |-> now])]

\* add_document putting the new entry in front of the old ones
AppendDocumentAtFront(idx, docs, meta, entry, now) ==
    [index |-> <<Embed(entry.content)>> \o idx,
     documents |-> <<entry.content>> \o docs,
     metadata |-> <<[category |-> entry.category,
                     keywords |-> entry.keywords,
                     importance |-> entry.importance,
                     index |-> Len(Append(docs, entry.content)) - 1,
                     added_at |-> now]>> \o meta]

\* the appends of add_document, which come before its save
AppendDocument(idx, docs, meta, entry, now) ==
    [index |-> Append(idx, Embed(entry.content)),
     documents |-> Append(docs, entry.content),
     metadata |-> Append(meta, [category |-> entry.category,
                                keywords |-> entry.keywords,
                                importance |-> entry.importance,
                                index |-> Len(Append(docs, entry.content)) - 1,
                                added_at |-> now])]

(***************************************************************************)
(* Inputs of the calls.                                                    *)
(***************************************************************************)
\* the arguments of direct add_document calls; importance in tenths
NewDocuments ==
    { [content |-> TextAws, category |-> "certifications",
       keywords |-> <<"aws">>, importance |-> 5],
      [content |-> TextPersonal, category |-> "personal",
       keywords |-> <<"who">>, importance |-> 10] }

Queries == {QueryWho, QueryCerts, QueryWeather}
Ks == {1, 2, 5}
Thresholds == {0, 7, 10}
MaxLengths == {0, 150, 250, 320, 2000}
\* a document without text, and a query that embeds where it does
EmptyDocument ==
    [content |-> "", category |-> "general", keywords |-> <<>>, importance |-> 8]
QueryOk == "ok"

EdgeDocuments == {EmptyDocument}
EdgeQueries == {QueryWho, QueryOk}
EdgeKs == {-1, 0, 1, 5}
EdgeThresholds == {0, 7}
EdgeLengths == {-1, 0, 150}

ConversationQueries == {QueryWork}
\* the queries learnt from: triggers of one category, of several, of none, no
\* keyword at all, and more keywords than the cap
QueryNone == "Is it 42?"
QuerySeveral == "Like the TOOL, like work"
QuerySkill == "A tool I like"
QueryLong == "hobby art bus cat dog elk fox gnu hen ink jay"
LearnQueries == {QueryWork, QueryNone, QuerySeveral, QuerySkill, QueryLong}
\* extract_keywords tabulated on the conversation queries
KeywordListsOf == [q \in ConversationQueries \cup LearnQueries |-> KeywordLists(q)]
Effectiveness == {7, 9}

\* self.conversation_context = {}
NoSessions == [s \in {} |-> ""]

\* no row written by db.save_conversation
NoRow == [session_id |-> "", user_message |-> "", bot_response |-> ""]

NoTurn ==
    [session_id |-> "", message |-> "", intent |-> "none", response |-> "",
     suggestions |-> <<>>, show_more_button |-> FALSE,
     followup |-> FALSE, answered |-> FALSE, full_response |-> "",
     engine_calls |-> <<>>, row |-> NoRow]

\* the request threads that may run add_document at once
Threads == {"t1", "t2"}

NoEntry == [content |-> "", category |-> "", keywords |-> <<>>, importance |-> 0]

IdleThread == [pc |-> "idle", entry |-> NoEntry, ntotal |-> 0, ordinal |-> 0, now |-> 0]

IdleThreads == [run |-> [t \in Threads |-> IdleThread], overlapped |-> FALSE]

\* the chat turns in progress: where each thread stands in get_ai_response,
\* and as history the turns that stored an answer and what the last
\* follow-up read
IdleRequest ==
    [pc |-> "idle", message |-> "", session_id |-> "", full_response |-> "",
     answer |-> ""]

NoServed == [session_id |-> "", response |-> "", query |-> ""]

IdleRequests ==
    [run |-> [t \in Threads |-> IdleRequest], count |-> 0, made |-> {},
     served |-> NoServed]

NoCall == [op |-> "none", query |-> "", response |-> "", k |-> 0, threshold |-> 0,
           max_length |-> 0, effectiveness |-> 0, fault |-> NoFault]

(***************************************************************************)
(* The state after RAGEngine.__init__ has set its fields, before           *)
(* initialize_vector_db: nothing in memory, nothing on disk.               *)
(***************************************************************************)
Init ==
    /\ phase = "unloaded"
    /\ index = <<>>
    /\ documents = <<>>
    /\ metadata = <<>>
    /\ dIndex = NoFile
    /\ dDocs = NoFile
    /\ dMeta = NoFile
    /\ clock = 0
    /\ added = <<>>
    /\ saved = EmptyStore
    /\ boot = [path |-> "none", missing |-> {}, corrupt |-> {}]
    /\ lastCall = NoCall
    /\ outcome = "none"
    /\ results = <<>>
    /\ context = ""
    /\ conversation_context = NoSessions
    /\ turn = NoTurn
    /\ requests = IdleRequests
    /\ threads = IdleThreads

\* the exception of the save caught and dropped inside the call
CallOutcomeSwallowed(fault) ==
    CASE fault.kind = "kill" -> "killed"
      [] OTHER               -> "ok"

\* how a call that ends with fault ends for its caller: add_document and
\* initialize_vector_db let the exception of save_vector_db through
CallOutcome(fault) ==
    CASE fault.kind = "none" -> "ok"
      [] fault.kind = "io"   -> "error"
      [] OTHER               -> "killed"

MissingFiles ==
    {n \in {"index", "docs", "meta"} :
        \/ n = "index" /\ ~dIndex.exists
        \/ n = "docs" /\ ~dDocs.exists
        \/ n = "meta" /\ ~dMeta.exists}

CorruptFiles ==
    {n \in {"index", "docs", "meta"} :
        \/ n = "index" /\ dIndex.exists /\ ~IndexWellFormed(dIndex.bytes)
        \/ n = "docs" /\ dDocs.exists /\ ~PickleWellFormed(dDocs.bytes)
        \/ n = "meta" /\ dMeta.exists /\ ~PickleWellFormed(dMeta.bytes)}

\* the branch initialize_vector_db takes
TakesLoadBranch == dIndex.exists /\ dDocs.exists

\* the load branch raises: read_index, pickle.load or open(meta_path) fails
LoadRaises ==
    \/ ~IndexWellFormed(dIndex.bytes)
    \/ ~PickleWellFormed(dDocs.bytes)
    \/ ~dMeta.exists
    \/ ~PickleWellFormed(dMeta.bytes)

(***************************************************************************)
(* initialize_vector_db, called by the constructor when the process        *)
(* starts.  An exception leaves the constructor and ends the process.      *)
(***************************************************************************)
Initialize(fault) ==
    /\ phase = "unloaded"
    /\ lastCall' = [NoCall EXCEPT !.op = "initialize", !.fault = fault]
    /\ results' = <<>>
    /\ context' = ""
    /\ clock' = clock
    /\ IF TakesLoadBranch
       THEN /\ fault = NoFault
            /\ boot' = [path |-> "load", missing |-> MissingFiles,
                        corrupt |-> CorruptFiles]
            /\ UNCHANGED <<dIndex, dDocs, dMeta, added, saved>>
            /\ IF LoadRaises
               THEN /\ phase' = "crashed"
                    /\ outcome' = "error"
                    /\ UNCHANGED <<index, documents, metadata>>
               ELSE /\ phase' = "ready"
                    /\ outcome' = "ok"
                    /\ index' = ReadIndex(dIndex.bytes)
                    /\ documents' = PickleLoad(dDocs.bytes)
                    /\ metadata' = PickleLoad(dMeta.bytes)
       ELSE LET store == PopulateKnowledgeBase
                disk == SaveVectorDb(store.index, store.documents, store.metadata,
                                     fault)
            IN  /\ boot' = [path |-> "build", missing |-> MissingFiles,
                            corrupt |-> CorruptFiles]
                /\ dIndex' = disk.dIndex
                /\ dDocs' = disk.dDocs
                /\ dMeta' = disk.dMeta
                /\ outcome' = CallOutcome(fault)
                /\ IF fault = NoFault
                   THEN /\ phase' = "ready"
                        /\ index' = store.index
                        /\ documents' = store.documents
                        /\ metadata' = store.metadata
                        /\ added' = KnowledgeBase
                        /\ saved' = store
                   ELSE /\ phase' = IF fault.kind = "io" THEN "crashed" ELSE "unloaded"
                        /\ UNCHANGED <<index, documents, metadata, added, saved>>

(***************************************************************************)
(* add_document                                                            *)
(***************************************************************************)
\* the store after an add_document that raised at line 307 (encode) or at
\* line 310 (index.add), had the document been appended before the vector
RejectedStoreDocumentFirst(idx, docs, meta, entry, fault) ==
    [index |-> idx,
     documents |-> IF fault.kind = "dimension" THEN Append(docs, entry.content)
                   ELSE docs,
     metadata |-> meta]

\* the store after an add_document that raised at line 307 (encode) or at
\* line 310 (index.add rejecting the vector): no statement before them
\* touches the index or the lists
RejectedStore(idx, docs, meta, entry, fault) ==
    [index |-> idx, documents |-> docs, metadata |-> meta]

\* add_document raising before it persists
AddRejected(op, query, response, effectiveness, entry, fault) ==
    LET store == RejectedStore(index, documents, metadata, entry, fault)
    IN  /\ lastCall' = [NoCall EXCEPT !.op = op, !.query = query,
                                      !.response = response,
                                      !.effectiveness = effectiveness,
                                      !.fault = fault]
        /\ outcome' = "error"
        /\ results' = <<>>
        /\ context' = ""
        /\ index' = store.index
        /\ documents' = store.documents
        /\ metadata' = store.metadata
        /\ UNCHANGED <<phase, dIndex, dDocs, dMeta, clock, added, saved, boot>>

AddPersisting(op, query, response, effectiveness, entry, fault) ==
    LET store == AppendDocument(index, documents, metadata, entry, clock)
        disk == SaveVectorDb(store.index, store.documents, store.metadata, fault)
    IN  /\ clock < MaxAdds
        /\ lastCall' = [NoCall EXCEPT !.op = op, !.query = query,
                                      !.response = response,
                                      !.effectiveness = effectiveness,
                                      !.fault = fault]
        /\ clock' = clock + 1
        /\ dIndex' = disk.dIndex
        /\ dDocs' = disk.dDocs
        /\ dMeta' = disk.dMeta
        /\ outcome' = CallOutcome(fault)
        /\ added' = Append(added, entry)
        /\ saved' = IF fault = NoFault THEN store ELSE saved
        /\ results' = <<>>
        /\ context' = ""
        /\ boot' = boot
        /\ IF fault.kind = "kill"
           THEN /\ phase' = "unloaded"
                /\ index' = <<>>
                /\ documents' = <<>>
                /\ metadata' = <<>>
           ELSE /\ phase' = phase
                /\ index' = store.index
                /\ documents' = store.documents
                /\ metadata' = store.metadata

AddEntry(op, query, response, effectiveness, entry, fault) ==
    IF fault \in EarlyFaults
    THEN AddRejected(op, query, response, effectiveness, entry, fault)
    ELSE AddPersisting(op, query, response, effectiveness, entry, fault)

AddDocument(entry, fault) ==
    /\ phase = "ready"
    /\ AddEntry("add_document", entry.content, "", 0, entry, fault)

(***************************************************************************)
(* update_from_conversation                                                *)
(***************************************************************************)
\* the call of add_document leaving importance to its default of 0.5
ConversationEntryDefaultImportance(query, response, effectiveness, keywords) ==
    [content |-> QAText(query, response),
     category |-> CategoryFrom(keywords, 1),
     keywords |-> keywords,
     importance |-> 5]

\* the entry update_from_conversation hands to add_document
ConversationEntry(query, response, effectiveness, keywords) ==
    [content |-> QAText(query, response),
     category |-> CategoryFrom(keywords, 1),
     keywords |-> keywords,
     importance |-> effectiveness]

LearnsAtThreshold(effectiveness) == effectiveness >= LearningThreshold

Learns(effectiveness) == effectiveness > LearningThreshold

UpdateFromConversation(query, response, effectiveness, keywords, fault) ==
    /\ phase = "ready"
    /\ keywords \in KeywordListsOf[query]
    /\ IF Learns(effectiveness)
       THEN AddEntry("update_from_conversation", query, response, effectiveness,
                     ConversationEntry(query, response, effectiveness, keywords),
                     fault)
       ELSE /\ fault = NoFault
            /\ lastCall' = [NoCall EXCEPT !.op = "update_from_conversation",
                                          !.query = query, !.response = response,
                                          !.effectiveness = effectiveness]
            /\ outcome' = "ok"
            /\ results' = <<>>
            /\ context' = ""
            /\ UNCHANGED <<phase, index, documents, metadata, dIndex, dDocs, dMeta,
                           clock, added, saved, boot>>

(***************************************************************************)
(* search and get_context_for_query                                        *)
(***************************************************************************)
\* a search that marks the entries it returns as important
SearchMarking(query, k, threshold) ==
    LET found == SearchOp(index, documents, metadata, query, k, threshold)
        hit == {found.list[j].meta.index + 1 : j \in 1..Len(found.list)}
    IN  /\ phase = "ready"
        /\ lastCall' = [NoCall EXCEPT !.op = "search", !.query = query, !.k = k,
                                      !.threshold = threshold]
        /\ outcome' = IF found.raised THEN "error" ELSE "ok"
        /\ results' = found.list
        /\ context' = ""
        /\ metadata' = [i \in 1..Len(metadata) |->
                           IF i \in hit THEN [metadata[i] EXCEPT !.importance = 10]
                           ELSE metadata[i]]
        /\ UNCHANGED <<phase, index, documents, dIndex, dDocs, dMeta,
                       clock, added, saved, boot>>

Search(query, k, threshold) ==
    LET found == SearchOp(index, documents, metadata, query, k, threshold)
    IN  /\ phase = "ready"
        /\ lastCall' = [NoCall EXCEPT !.op = "search", !.query = query, !.k = k,
                                      !.threshold = threshold]
        /\ outcome' = IF found.raised THEN "error" ELSE "ok"
        /\ results' = found.list
        /\ context' = ""
        /\ UNCHANGED <<phase, index, documents, metadata, dIndex, dDocs, dMeta,
                       clock, added, saved, boot>>

GetContextForQuery(query, max_context_length) ==
    LET got == ContextOp(index, documents, metadata, query, max_context_length)
    IN  /\ phase = "ready"
        /\ lastCall' = [NoCall EXCEPT !.op = "get_context_for_query",
                                      !.query = query,
                                      !.max_length = max_context_length]
        /\ outcome' = IF got.raised THEN "error" ELSE "ok"
        /\ results' = <<>>
        /\ context' = got.text
        /\ UNCHANGED <<phase, index, documents, metadata, dIndex, dDocs, dMeta,
                       clock, added, saved, boot>>

(***************************************************************************)
(* The process ends (or has crashed) and is started again: the constructor *)
(* resets the fields; the files stay.                                      *)
(***************************************************************************)
Restart ==
    /\ phase \in {"ready", "crashed"}
    /\ phase' = "unloaded"
    /\ index' = <<>>
    /\ documents' = <<>>
    /\ metadata' = <<>>
    /\ lastCall' = NoCall
    /\ outcome' = "none"
    /\ results' = <<>>
    /\ context' = ""
    /\ conversation_context' = NoSessions
    /\ turn' = NoTurn
    /\ requests' = IdleRequests
    /\ threads' = IdleThreads
    /\ UNCHANGED <<dIndex, dDocs, dMeta, clock, added, saved, boot>>

(***************************************************************************)
(* The chatbot of backend/server.py, for callers in mode 'strict': the     *)
(* per-session cache of the last query and the last full answer, and the   *)
(* calls a chat turn makes on the retrieval engine.  The language model    *)
(* behind get_ai_generated_response is an input of the turn.               *)
(***************************************************************************)
\* sub in s
Contains(s, sub) ==
    \E i \in 1..(Len(s) - Len(sub) + 1) : SubSeq(s, i, i + Len(sub) - 1) = sub

Whitespace == {" ", "\n", "\t", "\r"}

\* str.strip()
RECURSIVE Strip(_)
Strip(s) ==
    IF Len(s) = 0 THEN s
    ELSE IF CharAt(s, 1) \in Whitespace THEN Strip(SubSeq(s, 2, Len(s)))
    ELSE IF CharAt(s, Len(s)) \in Whitespace THEN Strip(SubSeq(s, 1, Len(s) - 1))
    ELSE s

\* s.split(sep) from position i on: up to the leftmost sep, then the rest
RECURSIVE SplitFrom(_, _, _)
SplitFrom(s, sep, i) ==
    LET hits == {j \in i..(Len(s) - Len(sep) + 1) : SubSeq(s, j, j + Len(sep) - 1) = sep}
    IN  IF hits = {} THEN <<SubSeq(s, i, Len(s))>>
        ELSE LET j == CHOOSE h \in hits : \A g \in hits : h <= g
             IN  <<SubSeq(s, i, j - 1)>> \o SplitFrom(s, sep, j + Len(sep))

Split(s, sep) == SplitFrom(s, sep, 1)

more_phrases ==
    <<"tell me more", "more details", "elaborate", "explain more",
      "more information", "details please", "expand on that",
      "can you elaborate", "more about that">>

\* the test of a follow-up on the text as typed, without lower()
IsMoreDetailsRequestCaseSensitive(message) ==
    \E n \in 1..Len(more_phrases) : Contains(message, more_phrases[n])

\* _is_more_details_request
IsMoreDetailsRequest(message) ==
    \E n \in 1..Len(more_phrases) : Contains(Lower(message), more_phrases[n])

\* classify_intent: the patterns in the order of the dict, weights in hundredths
intent_patterns ==
    << [intent |-> "greeting", weight |-> 100,
        keywords |-> <<"hi", "hello", "hey", "greetings", "good morning",
                       "good evening">>],
       [intent |-> "experience", weight |-> 90,
        keywords |-> <<"experience", "work", "job", "career", "ericsson",
                       "cash4you", "SanSahworked", "years">>],
       [intent |-> "skills", weight |-> 90,
        keywords |-> <<"skill", "technology", "framework", "language", "tool",
                       "expertise", "python", "tensorflow">>],
       [intent |-> "education", weight |-> 80,
        keywords |-> <<"education", "degree", "university", "study", "master",
                       "bachelor", "course">>],
       [intent |-> "projects", weight |-> 85,
        keywords |-> <<"project", "built", "created", "developed",
                       "implemented", "llm", "model">>],
       [intent |-> "personal_projects", weight |-> 95,
        keywords |-> <<"personal project", "personal projects", "side project",
                       "portfolio project", "own project">>],
       [intent |-> "certifications", weight |-> 95,
        keywords |-> <<"certifications", "certification", "certified",
                       "certificate", "aws", "salesforce", "google cloud",
                       "coursera">>],
       [intent |-> "hiring", weight |-> 95,
        keywords |-> <<"hire", "why", "unique", "fit", "value", "offer",
                       "candidate", "choose">>],
       [intent |-> "contact", weight |-> 90,
        keywords |-> <<"contact", "email", "phone", "reach", "connect",
                       "linkedin", "github">>],
       [intent |-> "technical", weight |-> 80,
        keywords |-> <<"how", "explain", "technical", "detail", "implement",
                       "architecture", "design">>],
       [intent |-> "achievement", weight |-> 85,
        keywords |-> <<"achievement", "award", "recognition", "accomplishment",
                       "success">>] >>

\* the number of the words of the list that occur in text
Occurring(words, text) ==
    Cardinality({n \in 1..Len(words) : Contains(text, words[n])})

IntentScore(pattern, message_lower) ==
    pattern.weight * Occurring(pattern.keywords, message_lower)

ClassifyIntent(message) ==
    LET scores == [n \in 1..Len(intent_patterns) |->
                      IntentScore(intent_patterns[n], Lower(message))]
        best == CHOOSE n \in 1..Len(intent_patterns) :
                    \A j \in 1..Len(intent_patterns) :
                        \/ scores[n] > scores[j]
                        \/ scores[n] = scores[j] /\ n <= j
    IN  IF scores[best] > 0 THEN intent_patterns[best].intent ELSE "general"

positive_words ==
    <<"good", "great", "excellent", "amazing", "wonderful", "fantastic", "love",
      "best", "perfect", "awesome", "impressive", "brilliant">>
negative_words ==
    <<"bad", "poor", "terrible", "awful", "hate", "worst", "disappointing",
      "horrible", "useless", "confusing">>

\* analyze_sentiment, as the fraction <<numerator, denominator>>
AnalyzeSentiment(message) ==
    LET positive_score == Occurring(positive_words, Lower(message))
        negative_score == Occurring(negative_words, Lower(message))
    IN  IF positive_score + negative_score = 0 THEN <<1, 2>>
        ELSE <<positive_score, positive_score + negative_score>>

\* sentiment > 0.7, the test before update_from_conversation
SentimentThreshold == 7
IsPositive(sentiment) == 10 * sentiment[1] > SentimentThreshold * sentiment[2]

\* the effectiveness the chatbot reports to update_from_conversation (0.9)
ReportedEffectiveness == 9

max_initial_response_length == 150

\* the loop of create_brief_response over the first three sentences
RECURSIVE BriefOf(_, _, _)
BriefOf(sentences, i, brief) ==
    IF i > Len(sentences) \/ i > 3 THEN brief
    ELSE IF Len(brief) + Len(sentences[i]) > max_initial_response_length
    THEN (IF i = 1 THEN sentences[i] \o "." ELSE brief)
    ELSE BriefOf(sentences, i + 1, brief \o sentences[i] \o ". ")

\* create_brief_response: the brief text and whether there is more
CreateBriefResponse(full_response) ==
    LET sentences == Split(full_response, ". ")
    IN  IF Len(sentences) <= 2 \/ Len(full_response) <= max_initial_response_length
        THEN [brief |-> full_response, has_more |-> FALSE]
        ELSE LET brief == Strip(BriefOf(sentences, 1, ""))
             IN  [brief |-> IF Len(brief) > 0 /\ CharAt(brief, Len(brief)) = "."
                            THEN brief ELSE brief \o ".",
                  has_more |-> TRUE]

\* get_default_suggestions('strict')
DefaultSuggestions ==
    <<"Tell me about Sai's Python experience", "What are his key achievements?",
      "Why should we hire Sai?">>

suggestions_map ==
    << [intent |-> "greeting",
        list |-> <<"Tell me about Sai's experience", "What makes Sai unique?",
                   "Show me his top achievements">>],
       [intent |-> "experience",
        list |-> <<"What specific technologies did he use?",
                   "Tell me about his achievements",
                   "What was his impact at Ericsson?">>],
       [intent |-> "skills",
        list |-> <<"How proficient is he in Python?",
                   "What about his LLM expertise?",
                   "Tell me about his cloud experience">>],
       [intent |-> "projects",
        list |-> <<"Explain the LLM fine-tuning project",
                   "What was the business impact?", "How did he implement RAG?">>],
       [intent |-> "hiring",
        list |-> <<"What's his biggest achievement?", "Show me specific metrics",
                   "Why is he different from others?">>],
       [intent |-> "technical",
        list |-> <<"How does this chatbot work?",
                   "Explain the RAG implementation",
                   "What ML techniques are used here?">>] >>

\* get_smart_suggestions(message, intent, 'strict'): the message is not read
SmartSuggestions(message, intent) ==
    IF \E n \in 1..Len(suggestions_map) : suggestions_map[n].intent = intent
    THEN suggestions_map[CHOOSE n \in 1..Len(suggestions_map) :
                            suggestions_map[n].intent = intent].list
    ELSE DefaultSuggestions

\* the replies of get_intelligent_fallback that need no search; the
\* typographic apostrophes of the source are written as '
hard ==
    << [ask |-> "who are you",
        reply |-> "I'm Sai's AI assistant. I answer questions about Sai and his work, and I can summarize projects, experience, and skills."],
       [ask |-> "how to contact",
        reply |-> "You can reach Sai via the Contact form on the site. I'll forward messages instantly."] >>

\* the bullet character U+2022 of the source, written in ASCII
Bullet == "*"

\* the first two documents found, each as a bullet when its score is above 0.7
RECURSIVE Bullets(_, _)
Bullets(relevant_docs, n) ==
    IF n > Len(relevant_docs) \/ n > 2 THEN ""
    ELSE (IF 10 * relevant_docs[n].sim[1] > 7 * relevant_docs[n].sim[2]
          THEN Bullet \o " " \o relevant_docs[n].doc \o "\n\n" ELSE "")
         \o Bullets(relevant_docs, n + 1)

\* the pattern-based replies of get_intelligent_fallback when the search found
\* nothing; each canned text is cut to its first line
PatternResponse(message, mode) ==
    LET m == Lower(message)
    IN  IF Contains(m, "python") /\ (Contains(m, "experience") \/ Contains(m, "years"))
        THEN "Sai has **5+ years of extensive Python experience**:"
        ELSE IF ~Contains(m, "python")
                /\ (Contains(m, "tensorflow") \/ Contains(m, "pytorch")
                    \/ Contains(m, "deep learning"))
        THEN "Sai's Deep Learning Expertise:"
        ELSE IF ~Contains(m, "python")
                /\ (Contains(m, "llm") \/ Contains(m, "large language"))
        THEN "Sai's LLM (Large Language Model) Expertise:"
        ELSE IF ~Contains(m, "python") /\ Contains(m, "experience")
        THEN "Sai's Professional Journey (5+ Years in AI/ML):"
        ELSE IF ~Contains(m, "python") /\ Contains(m, "skill")
        THEN "Sai's Technical Arsenal:"
        ELSE IF ~Contains(m, "python")
                /\ (Contains(m, "hire") \/ Contains(m, "why")
                    \/ Contains(m, "unique") \/ Contains(m, "value"))
        THEN "Why Hire Sai? Here's the Value Proposition:"
        ELSE IF mode = "strict"
        THEN "I'm Sai's AI assistant, powered by advanced ML techniques. I can provide detailed information about:"
        ELSE "That's an interesting question! While I can discuss various topics, my specialty is sharing information about Sai's impressive AI/ML background."

\* get_intelligent_fallback after its search has returned found
FallbackFromSearch(found, message, mode) ==
    IF found.raised
    THEN [raised |-> TRUE, calls |-> <<"search">>, text |-> ""]
    ELSE IF found.list # <<>>
    THEN [raised |-> FALSE, calls |-> <<"search">>,
          text |-> Strip("Based on Sai's background:\n\n" \o Bullets(found.list, 1))]
    ELSE [raised |-> FALSE, calls |-> <<"search">>,
          text |-> PatternResponse(message, mode)]

\* the hard-coded reply to the stripped, lowercased message m, if it has one
HardReply(m) ==
    IF \E n \in 1..Len(hard) : hard[n].ask = m
    THEN <<hard[CHOOSE n \in 1..Len(hard) : hard[n].ask = m].reply>>
    ELSE <<>>

\* get_intelligent_fallback: whether it raises, its text, the engine calls made
IntelligentFallback(idx, docs, meta, message, mode) ==
    IF HardReply(Strip(Lower(message))) # <<>>
    THEN [raised |-> FALSE, calls |-> <<>>,
          text |-> HardReply(Strip(Lower(message)))[1]]
    ELSE FallbackFromSearch(SearchOp(idx, docs, meta, message, 3, DefaultThreshold),
                            message, mode)

\* the quick replies of get_brief_fallback for the lowercased message m
QuickReply(m) ==
    IF Contains(m, "python")
    THEN "Sai has 5+ years of Python expertise with 95% proficiency, having written 100k+ lines of production code."
    ELSE IF Contains(m, "experience")
    THEN "Sai has 5+ years in AI/ML, working at Ericsson (2022-2024), Cash4You (2021-2022) and SanSah Innovations (2018-2019) with significant achievements."
    ELSE IF Contains(m, "skill")
    THEN "Expert in Python, TensorFlow, PyTorch, LLMs, and cloud platforms (AWS/GCP) with production deployment experience."
    ELSE IF Contains(m, "hire") \/ Contains(m, "why") \/ Contains(m, "unique")
    THEN "Sai offers proven ROI: 41% improvement at Ericsson, 23% at Cash4You, with 15+ deployed ML models."
    ELSE "I can help you learn about Sai's AI/ML expertise, experience, and achievements. What would you like to know?"

\* get_brief_fallback after its search has returned found
BriefFromSearch(found, message) ==
    IF found.raised THEN [raised |-> TRUE, text |-> ""]
    ELSE IF found.list # <<>>
            /\ 10 * found.list[1].sim[1] > 8 * found.list[1].sim[2]
    THEN [raised |-> FALSE,
          text |-> IF Len(found.list[1].doc) > 150
                   THEN SubSeq(found.list[1].doc, 1, 150) \o "..."
                   ELSE found.list[1].doc]
    ELSE [raised |-> FALSE, text |-> QuickReply(Lower(message))]

\* get_brief_fallback: whether it raises, and its text
BriefFallback(idx, docs, meta, message) ==
    BriefFromSearch(SearchOp(idx, docs, meta, message, 1, DefaultThreshold), message)

\* the least length of a reply of the language model that is taken (> 50)
MinReplyLength == 50

\* get_ai_generated_response: the reply of the model when it is long enough,
\* the local fallback otherwise (no key, a failed request, a short reply)
AiGeneratedResponse(idx, docs, meta, reply, message, mode) ==
    IF Len(reply) > MinReplyLength
    THEN [raised |-> FALSE, calls |-> <<>>, text |-> reply]
    ELSE IntelligentFallback(idx, docs, meta, message, mode)

\* the default max_context_length of get_context_for_query
DefaultMaxContextLength == 2000

NewSession == [history |-> <<>>, last_full_response |-> "", last_query |-> ""]

\* the cache after the lazy creation of the session's entry
WithSession(cc, session_id) ==
    IF session_id \in DOMAIN cc THEN cc
    ELSE [s \in DOMAIN cc \cup {session_id} |->
             IF s = session_id THEN NewSession ELSE cc[s]]

\* the store step keeping the query of the turn before
StoreAnswerOnly(cc, session_id, full_response, message) ==
    [cc EXCEPT ![session_id].last_full_response = full_response]

\* steps 7 of get_ai_response: the answer and the query stored for the session
StoreAnswer(cc, session_id, full_response, message) ==
    [cc EXCEPT ![session_id].last_full_response = full_response,
               ![session_id].last_query = message]

\* the arguments of the chat turns
Sessions == {"s1", "s2"}
\* a follow-up that is also praise
MessageMore == "Great! Elaborate"
Messages == {QueryWho, MessageMore}
ReplyLong ==
    "Sai is an AI/ML engineer. He built ML systems at Ericsson. He holds AWS certifications."
\* what the language model sent: nothing usable, or an answer
LlmReplies == {"", ReplyLong}
DbFaults == {"none", "history", "save"}

\* what get_ai_response computes from the message alone, tabulated on the
\* messages: classify_intent, _is_more_details_request, the test of line 167,
\* analyze_sentiment > 0.7
MessageFacts ==
    [m \in Messages |->
        [intent |-> ClassifyIntent(m),
         more |-> IsMoreDetailsRequest(m),
         personal_project |-> Contains(Lower(m), "personal") /\ Contains(Lower(m), "project"),
         positive |-> IsPositive(AnalyzeSentiment(m))]]

\* extract_keywords runs inside update_from_conversation only: the orders
\* list(set(...)) may give for a message that is learnt from
TurnKeywords ==
    [m \in Messages |-> IF MessageFacts[m].positive THEN KeywordLists(m) ELSE {<<>>}]

\* get_brief_fallback on a store
BriefFallbackOn(store, message) ==
    BriefFallback(store.index, store.documents, store.metadata, message)

\* the arguments and the blank fields of what a turn returns
TurnOf(message, session_id) ==
    [NoTurn EXCEPT !.session_id = session_id, !.message = message]

\* the test of line 167 and the mode it gives the prompt
AsksProjects(message) ==
    \/ MessageFacts[message].intent = "personal_projects"
    \/ MessageFacts[message].personal_project

PromptMode(message) == IF AsksProjects(message) THEN "open" ELSE "strict"

\* the engine calls of steps 2: the context, and the search of line 169
RetrievalCalls(message) ==
    <<"get_context_for_query">>
    \o (IF AsksProjects(message) THEN <<"search">> ELSE <<>>)

\* lines 141-154: the stored answer is returned
FollowUpTurn(ctx0, message, session_id) ==
    [context |-> ctx0, learn |-> FALSE,
     turn |-> [TurnOf(message, session_id) EXCEPT
         !.intent = "detailed",
         !.response = ctx0[session_id].last_full_response,
         !.suggestions = SmartSuggestions(ctx0[session_id].last_query, "detailed"),
         !.followup = TRUE]]

\* lines 228-237: the except branch, fb being what get_brief_fallback gave
FailedTurn(ctx, calls, fb, message, session_id, answered, full, written, learnt) ==
    [context |-> ctx, learn |-> learnt,
     turn |-> [TurnOf(message, session_id) EXCEPT
         !.intent = IF fb.raised THEN "raised" ELSE "error",
         !.response = fb.text,
         !.suggestions = IF fb.raised THEN <<>> ELSE DefaultSuggestions,
         !.show_more_button = ~fb.raised,
         !.answered = answered,
         !.full_response = full,
         !.engine_calls = calls \o <<"search">>,
         !.row = written]]

\* lines 219-226: the turn returns its brief answer
CompletedTurn(ctx1, calls, made, full, message, session_id) ==
    [context |-> ctx1,
     learn |-> MessageFacts[message].positive /\ Learns(ReportedEffectiveness),
     turn |-> [TurnOf(message, session_id) EXCEPT
         !.intent = MessageFacts[message].intent,
         !.response = made.brief,
         !.suggestions = SmartSuggestions(message, MessageFacts[message].intent),
         !.show_more_button = made.has_more,
         !.answered = TRUE,
         !.full_response = full,
         !.engine_calls =
             calls \o (IF MessageFacts[message].positive
                       THEN <<"update_from_conversation">> ELSE <<>>),
         !.row = [session_id |-> session_id, user_message |-> message,
                  bot_response |-> made.brief]]]

\* lines 194-226: from the answer gen of get_ai_generated_response on
AnsweredTurn(ctx0, idx, docs, meta, now, message, session_id, keywords, dbfault, fault, gen, made) ==
    IF gen.raised
    THEN FailedTurn(ctx0, RetrievalCalls(message) \o gen.calls,
                    BriefFallback(idx, docs, meta, message),
                    message, session_id, FALSE, "", NoRow, FALSE)
    ELSE IF dbfault = "save"
    THEN FailedTurn(StoreAnswer(ctx0, session_id, gen.text, message),
                    RetrievalCalls(message) \o gen.calls,
                    BriefFallback(idx, docs, meta, message),
                    message, session_id, TRUE, gen.text, NoRow, FALSE)
    ELSE IF /\ MessageFacts[message].positive
            /\ Learns(ReportedEffectiveness)
            /\ fault.kind = "io"
    THEN FailedTurn(StoreAnswer(ctx0, session_id, gen.text, message),
                    RetrievalCalls(message) \o gen.calls
                        \o <<"update_from_conversation">>,
                    BriefFallbackOn(
                        AppendDocument(idx, docs, meta,
                            ConversationEntry(message, gen.text,
                                              ReportedEffectiveness, keywords),
                            now),
                        message),
                    message, session_id, TRUE, gen.text,
                    [session_id |-> session_id, user_message |-> message,
                     bot_response |-> made.brief],
                    TRUE)
    ELSE CompletedTurn(StoreAnswer(ctx0, session_id, gen.text, message),
                       RetrievalCalls(message) \o gen.calls, made, gen.text,
                       message, session_id)

\* lines 156-192: the turn of a new query on the cache ctx0
RegularTurn(ctx0, idx, docs, meta, now, message, session_id, reply, keywords, dbfault, fault, gen) ==
    IF ContextOp(idx, docs, meta, message, DefaultMaxContextLength).raised
    THEN FailedTurn(ctx0, <<"get_context_for_query">>,
                    BriefFallback(idx, docs, meta, message),
                    message, session_id, FALSE, "", NoRow, FALSE)
    ELSE IF dbfault = "history"
    THEN FailedTurn(ctx0, RetrievalCalls(message),
                    BriefFallback(idx, docs, meta, message),
                    message, session_id, FALSE, "", NoRow, FALSE)
    ELSE AnsweredTurn(ctx0, idx, docs, meta, now, message, session_id, keywords,
                      dbfault, fault, gen, CreateBriefResponse(gen.text))

\* the turn on the cache ctx0, which has the session's entry
TurnOn(ctx0, idx, docs, meta, now, message, session_id, reply, keywords, dbfault, fault) ==
    IF MessageFacts[message].more /\ ctx0[session_id].last_full_response # ""
    THEN FollowUpTurn(ctx0, message, session_id)
    ELSE RegularTurn(ctx0, idx, docs, meta, now, message, session_id, reply,
                     keywords, dbfault, fault,
                     AiGeneratedResponse(idx, docs, meta, reply, message,
                                         PromptMode(message)))

\* get_ai_response(message, session_id) on the cache cc and the store
\* (idx, docs, meta): the cache after it, what it returns, and what it did.
\* reply is what the language model sent, dbfault the database call that
\* raises ("none", "history", "save"), fault the fault of the engine's save.
ChatTurn(cc, idx, docs, meta, now, message, session_id, reply, keywords, dbfault, fault) ==
    TurnOn(WithSession(cc, session_id), idx, docs, meta, now, message, session_id,
           reply, keywords, dbfault, fault)

(***************************************************************************)
(* One chat turn: IntelligentChatbot.get_ai_response, with the insertion   *)
(* update_from_conversation makes in the engine when the turn learns.      *)
(***************************************************************************)
\* the effects of a turn t on the cache and on the engine
ApplyTurn(t, message, keywords, fault) ==
    /\ conversation_context' = t.context
    /\ turn' = t.turn
    /\ requests' = requests
    /\ threads' = threads
    /\ IF t.learn
       THEN AddEntry("update_from_conversation", message, t.turn.full_response,
                     ReportedEffectiveness,
                     ConversationEntry(message, t.turn.full_response,
                                       ReportedEffectiveness, keywords),
                     fault)
       ELSE /\ fault = NoFault
            /\ UNCHANGED engineVars

GetAiResponse(message, session_id, reply, keywords, dbfault, fault) ==
    /\ phase = "ready"
    /\ keywords \in TurnKeywords[message]
    /\ ApplyTurn(ChatTurn(conversation_context, index, documents, metadata, clock,
                          message, session_id, reply, keywords, dbfault, fault),
                 message, keywords, fault)

(***************************************************************************)
(* add_document statement by statement, for calls that run on two request  *)
(* threads at once (the server takes no lock).  index.add runs outside the *)
(* interpreter lock: it reads the size of the index, then writes the       *)
(* vector at that place and sets the size, so that of two racing adds one  *)
(* may overwrite the other.  The list appends are atomic.                  *)
(***************************************************************************)
\* the metadata dict of lines 314-320, built before it is appended
MetadataRecordOffByOne(entry, ordinal, now) ==
    [category |-> entry.category, keywords |-> entry.keywords,
     importance |-> entry.importance, index |-> ordinal + 1, added_at |-> now]

MetadataRecord(entry, ordinal, now) ==
    [category |-> entry.category, keywords |-> entry.keywords,
     importance |-> entry.importance, index |-> ordinal, added_at |-> now]

Proceed(t, pc) == [threads EXCEPT !.run[t].pc = pc]

\* line 307: the call starts and encodes its content
AddBegin(t, entry) ==
    /\ phase = "ready"
    /\ threads.run[t].pc = "idle"
    /\ clock < MaxAdds
    /\ clock' = clock + 1
    /\ threads' = [threads EXCEPT
           !.run[t] = [IdleThread EXCEPT !.pc = "encoded", !.entry = entry],
           !.overlapped = threads.overlapped
                          \/ \E u \in Threads \ {t} : threads.run[u].pc # "idle"]
    /\ UNCHANGED <<phase, index, documents, metadata, dIndex, dDocs, dMeta,
                   added, saved, boot, lastCall, outcome, results, context,
                   conversation_context, turn, requests>>

\* line 310, first half: index.add reads the size of the index
IndexAddRead(t) ==
    /\ threads.run[t].pc = "encoded"
    /\ threads' = [threads EXCEPT !.run[t].pc = "adding",
                                  !.run[t].ntotal = Len(index)]
    /\ UNCHANGED <<phase, index, documents, metadata, dIndex, dDocs, dMeta, clock,
                   added, saved, boot, lastCall, outcome, results, context,
                   conversation_context, turn, requests>>

\* line 310, second half: the vector is written at the place read
IndexAddWrite(t) ==
    /\ threads.run[t].pc = "adding"
    /\ index' = Append(SubSeq(index, 1, threads.run[t].ntotal),
                       Embed(threads.run[t].entry.content))
    /\ threads' = Proceed(t, "indexed")
    /\ UNCHANGED <<phase, documents, metadata, dIndex, dDocs, dMeta, clock,
                   added, saved, boot, lastCall, outcome, results, context,
                   conversation_context, turn, requests>>

\* line 313
DocumentsAppend(t) ==
    /\ threads.run[t].pc = "indexed"
    /\ documents' = Append(documents, threads.run[t].entry.content)
    /\ threads' = Proceed(t, "appended")
    /\ UNCHANGED <<phase, index, metadata, dIndex, dDocs, dMeta, clock,
                   added, saved, boot, lastCall, outcome, results, context,
                   conversation_context, turn, requests>>

\* lines 314-320, the argument: len(self.documents) - 1 and datetime.now()
MetadataBuild(t) ==
    /\ threads.run[t].pc = "appended"
    /\ threads' = [threads EXCEPT !.run[t].pc = "built",
                                  !.run[t].ordinal = Len(documents) - 1,
                                  !.run[t].now = clock - 1]
    /\ UNCHANGED <<phase, index, documents, metadata, dIndex, dDocs, dMeta, clock,
                   added, saved, boot, lastCall, outcome, results, context,
                   conversation_context, turn, requests>>

\* lines 314-320, the append
MetadataAppend(t) ==
    /\ threads.run[t].pc = "built"
    /\ metadata' = Append(metadata, MetadataRecord(threads.run[t].entry,
                                                   threads.run[t].ordinal,
                                                   threads.run[t].now))
    /\ threads' = Proceed(t, "recorded")
    /\ UNCHANGED <<phase, index, documents, dIndex, dDocs, dMeta, clock,
                   added, saved, boot, lastCall, outcome, results, context,
                   conversation_context, turn, requests>>

\* line 323, save_vector_db: each file is written from the list as it is
\* when its write runs
SaveIndex(t) ==
    /\ threads.run[t].pc = "recorded"
    /\ dIndex' = [exists |-> TRUE, bytes |-> WriteIndex(index)]
    /\ threads' = Proceed(t, "saved_index")
    /\ UNCHANGED <<phase, index, documents, metadata, dDocs, dMeta, clock,
                   added, saved, boot, lastCall, outcome, results, context,
                   conversation_context, turn, requests>>

SaveDocs(t) ==
    /\ threads.run[t].pc = "saved_index"
    /\ dDocs' = [exists |-> TRUE, bytes |-> PickleDump(documents, BlankDoc)]
    /\ threads' = Proceed(t, "saved_docs")
    /\ UNCHANGED <<phase, index, documents, metadata, dIndex, dMeta, clock,
                   added, saved, boot, lastCall, outcome, results, context,
                   conversation_context, turn, requests>>

\* the last write, after which the call returns
SaveMeta(t) ==
    /\ threads.run[t].pc = "saved_docs"
    /\ dMeta' = [exists |-> TRUE, bytes |-> PickleDump(metadata, BlankMeta)]
    /\ added' = Append(added, threads.run[t].entry)
    /\ threads' = [threads EXCEPT !.run[t] = IdleThread]
    /\ UNCHANGED <<phase, index, documents, metadata, dIndex, dDocs, clock,
                   saved, boot, lastCall, outcome, results, context,
                   conversation_context, turn, requests>>

(***************************************************************************)
(* get_ai_response statement by statement, for turns handled by two        *)
(* threads at once: the cache is a plain dict, and the two assignments of  *)
(* lines 198-199 and the two reads of lines 144 and 146 are separate       *)
(* statements between which another thread may run.  The messages are      *)
(* neither praise nor about projects, so that no turn learns, and the      *)
(* database answers.                                                       *)
(***************************************************************************)
\* the number of chat turns of one behaviour
MaxTurns == 3

MessageTellMore == "tell me more"
RaceMessages == {QueryWho, QueryCerts, MessageTellMore}

\* lines 129-192: the entry of the session is created, and the turn either
\* takes the follow-up branch or gets its full answer
RequestBegin(t, message, session_id, reply) ==
    LET cc == WithSession(conversation_context, session_id)
        gen == AiGeneratedResponse(index, documents, metadata, reply, message,
                                   "strict")
    IN  /\ phase = "ready"
        /\ requests.run[t].pc = "idle"
        /\ requests.count < MaxTurns
        /\ conversation_context' = cc
        /\ requests' =
             [requests EXCEPT
                !.count = requests.count + 1,
                !.run[t] =
                    IF /\ IsMoreDetailsRequest(message)
                       /\ cc[session_id].last_full_response # ""
                    THEN [IdleRequest EXCEPT !.pc = "follow",
                                             !.message = message,
                                             !.session_id = session_id]
                    ELSE IF gen.raised THEN IdleRequest
                    ELSE [IdleRequest EXCEPT !.pc = "answered",
                                             !.message = message,
                                             !.session_id = session_id,
                                             !.full_response = gen.text]]
        /\ UNCHANGED <<engineVars, turn, threads>>

\* line 198
StoreFullResponse(t) ==
    /\ requests.run[t].pc = "answered"
    /\ conversation_context' =
          [conversation_context EXCEPT
              ![requests.run[t].session_id].last_full_response
                  = requests.run[t].full_response]
    /\ requests' =
          [requests EXCEPT
              !.run[t].pc = "stored_full",
              !.made = requests.made
                         \cup {[session_id |-> requests.run[t].session_id,
                                query |-> requests.run[t].message,
                                response |-> requests.run[t].full_response]}]
    /\ UNCHANGED <<engineVars, turn, threads>>

\* line 199, after which the turn saves its row and returns
StoreLastQuery(t) ==
    /\ requests.run[t].pc = "stored_full"
    /\ conversation_context' =
          [conversation_context EXCEPT
              ![requests.run[t].session_id].last_query = requests.run[t].message]
    /\ requests' = [requests EXCEPT !.run[t] = IdleRequest]
    /\ UNCHANGED <<engineVars, turn, threads>>

\* line 144: the follow-up reads the stored answer
FollowReadAnswer(t) ==
    /\ requests.run[t].pc = "follow"
    /\ requests' =
          [requests EXCEPT
              !.run[t].pc = "read_answer",
              !.run[t].answer =
                  conversation_context[requests.run[t].session_id].last_full_response]
    /\ UNCHANGED <<engineVars, conversation_context, turn, threads>>

\* lines 145-154: the follow-up reads the stored query for its suggestions
\* and returns
FollowReadQuery(t) ==
    /\ requests.run[t].pc = "read_answer"
    /\ requests' =
          [requests EXCEPT
              !.run[t] = IdleRequest,
              !.served =
                  [session_id |-> requests.run[t].session_id,
                   response |-> requests.run[t].answer,
                   query |-> conversation_context[requests.run[t].session_id].last_query]]
    /\ UNCHANGED <<engineVars, conversation_context, turn, threads>>

Calls(faults, docs, queries, ks, thresholds, lengths) ==
    \/ \E f \in faults : Initialize(f) /\ UNCHANGED <<chatVars, threads>>
    \/ \E e \in docs, f \in faults :
          AddDocument(e, f) /\ UNCHANGED <<chatVars, threads>>
    \/ \E q \in ConversationQueries, e \in Effectiveness, f \in faults :
          \E kws \in KeywordListsOf[q] :
             /\ UpdateFromConversation(q, ResponseShort, e, kws, f)
             /\ UNCHANGED <<chatVars, threads>>
    \/ \E q \in queries, k \in ks, t \in thresholds :
          Search(q, k, t) /\ UNCHANGED <<chatVars, threads>>
    \/ \E q \in queries, m \in lengths :
          GetContextForQuery(q, m) /\ UNCHANGED <<chatVars, threads>>
    \/ Restart

\* every save completes
Next == Calls({NoFault}, NewDocuments, Queries, Ks, Thresholds, MaxLengths)

Spec == Init /\ [][Next]_vars

\* a save may raise or the process may die in it; one probe of the store
NextFault ==
    Calls(Faults, NewDocuments, {QueryWho}, {DefaultK}, {DefaultThreshold}, {2000})

SpecFault == Init /\ [][NextFault]_vars

\* the calls at the edges of their arguments: k below 1, a budget below 1, a
\* document without text
NextEdge ==
    Calls({NoFault}, EdgeDocuments, EdgeQueries, EdgeKs, EdgeThresholds, EdgeLengths)

SpecEdge == Init /\ [][NextEdge]_vars

\* the same calls on an engine set up on the new index of line 47 alone, the
\* knowledge base left out: the store a search finds empty
InitEmpty ==
    /\ phase = "ready"
    /\ index = <<>>
    /\ documents = <<>>
    /\ metadata = <<>>
    /\ dIndex = NoFile
    /\ dDocs = NoFile
    /\ dMeta = NoFile
    /\ clock = 0
    /\ added = <<>>
    /\ saved = EmptyStore
    /\ boot = [path |-> "none", missing |-> {}, corrupt |-> {}]
    /\ lastCall = NoCall
    /\ outcome = "none"
    /\ results = <<>>
    /\ context = ""
    /\ conversation_context = NoSessions
    /\ turn = NoTurn
    /\ requests = IdleRequests
    /\ threads = IdleThreads

SpecEmpty == InitEmpty /\ [][NextEdge]_vars

\* insertions that may fail before they persist, and a probe of the store
NextReject ==
    \/ Initialize(NoFault) /\ UNCHANGED <<chatVars, threads>>
    \/ \E e \in NewDocuments, f \in EarlyFaults \cup {NoFault} :
          AddDocument(e, f) /\ UNCHANGED <<chatVars, threads>>
    \/ \E q \in ConversationQueries, e \in Effectiveness :
          \E f \in EarlyFaults \cup {NoFault}, kws \in KeywordListsOf[q] :
             /\ UpdateFromConversation(q, ResponseShort, e, kws, f)
             /\ UNCHANGED <<chatVars, threads>>
    \/ \E q \in {QueryWho, QueryCerts} :
          Search(q, DefaultK, DefaultThreshold) /\ UNCHANGED <<chatVars, threads>>

SpecReject == Init /\ [][NextReject]_vars

\* chat turns on two threads
NextRace ==
    \/ Initialize(NoFault) /\ UNCHANGED <<chatVars, threads>>
    \/ \E t \in Threads, m \in RaceMessages, s \in Sessions, r \in LlmReplies :
          RequestBegin(t, m, s, r)
    \/ \E t \in Threads : StoreFullResponse(t)
    \/ \E t \in Threads : StoreLastQuery(t)
    \/ \E t \in Threads : FollowReadAnswer(t)
    \/ \E t \in Threads : FollowReadQuery(t)

SpecRace == Init /\ [][NextRace]_vars

\* update_from_conversation on the queries learnt from
NextLearn ==
    \/ Initialize(NoFault) /\ UNCHANGED <<chatVars, threads>>
    \/ \E q \in LearnQueries, e \in Effectiveness :
          \E kws \in KeywordListsOf[q] :
             /\ UpdateFromConversation(q, ResponseShort, e, kws, NoFault)
             /\ UNCHANGED <<chatVars, threads>>

SpecLearn == Init /\ [][NextLearn]_vars

\* the chat turns of one run of the server; the database may fail, the
\* saves of the engine complete
NextChat ==
    \/ Initialize(NoFault) /\ UNCHANGED <<chatVars, threads>>
    \/ \E m \in Messages, s \in Sessions, r \in LlmReplies, d \in DbFaults :
          \E kws \in TurnKeywords[m] : GetAiResponse(m, s, r, kws, d, NoFault)

SpecChat == Init /\ [][NextChat]_vars

\* add_document on two threads, and a search that may run between their steps
NextThreads ==
    \/ Initialize(NoFault) /\ UNCHANGED <<chatVars, threads>>
    \/ \E t \in Threads, e \in NewDocuments : AddBegin(t, e)
    \/ \E t \in Threads : IndexAddRead(t)
    \/ \E t \in Threads : IndexAddWrite(t)
    \/ \E t \in Threads : DocumentsAppend(t)
    \/ \E t \in Threads : MetadataBuild(t)
    \/ \E t \in Threads : MetadataAppend(t)
    \/ \E t \in Threads : SaveIndex(t)
    \/ \E t \in Threads : SaveDocs(t)
    \/ \E t \in Threads : SaveMeta(t)
    \/ Search(QueryCerts, DefaultK, DefaultThreshold) /\ UNCHANGED <<chatVars, threads>>

SpecThreads == Init /\ [][NextThreads]_vars

(***************************************************************************)
(* Properties.                                                             *)
(***************************************************************************)
IsOne(sim) == sim[1] = sim[2]

\* the text the last add_document stored
LastContent(call) ==
    IF call.op = "update_from_conversation" THEN QAText(call.query, call.response)
    ELSE call.query

\* C1: on a ready engine, after every add_document of a sequence, the document
\* list, the metadata list and the vector index hold the same number of
\* entries, and entry i of each belongs to the i-th document added.
C1_Alignment ==
    phase = "ready" =>
        /\ Len(documents) = Len(added)
        /\ Len(metadata) = Len(added)
        /\ Len(index) = Len(added)
        /\ \A i \in 1..Len(added) :
              /\ documents[i] = added[i].content
              /\ index[i] = Embed(added[i].content)
              /\ metadata[i].category = added[i].category
              /\ metadata[i].keywords = added[i].keywords
              /\ metadata[i].importance = added[i].importance

\* two add_document calls, one after the other, have been made on the store
C1_Witness ==
    /\ phase = "ready"
    /\ lastCall.op = "add_document"
    /\ outcome = "ok"
    /\ Len(documents) = Len(KnowledgeBase) + 2

\* C2: after every load from disk the index, the document list and the
\* metadata list have the same length and are index-aligned, also when an
\* earlier save was interrupted between the three artifacts.
C2_LoadConsistent ==
    (lastCall.op = "initialize" /\ boot.path = "load" /\ phase = "ready") =>
        /\ Len(index) = Len(documents)
        /\ Len(documents) = Len(metadata)
        /\ \A i \in 1..Len(documents) : index[i] = Embed(documents[i])

\* C3: in the list search returns, whenever A precedes B,
\* importance(A) * similarity(A) >= importance(B) * similarity(B).
C3_RankingOrder ==
    (lastCall.op = "search" /\ outcome = "ok") =>
        \A i, j \in 1..Len(results) :
            i < j =>
                results[i].meta.importance * results[i].sim[1] * results[j].sim[2]
                    >= results[j].meta.importance * results[j].sim[1] * results[i].sim[2]

\* a search whose ranking moved a less similar document before a more similar
C3_Witness ==
    /\ lastCall.op = "search"
    /\ outcome = "ok"
    /\ \E i, j \in 1..Len(results) :
          /\ i < j
          /\ results[i].sim[1] * results[j].sim[2] < results[j].sim[1] * results[i].sim[2]

\* C4: the string get_context_for_query(query, max_length) returns is at most
\* max_length plus the length of the ellipsis marker long, the category tags
\* and the separators counted.
C4_ContextBudget ==
    (lastCall.op = "get_context_for_query" /\ outcome = "ok"
       /\ lastCall.max_length >= 0) =>
        Len(context) <= lastCall.max_length + Len(Ellipsis)

\* C5: for a fixed store, query and k, the results of search with a threshold
\* t2 >= t1 are among the results with threshold t1, and no more in number.
C5_ThresholdMonotone ==
    (lastCall.op = "search" /\ outcome = "ok") =>
        \A t \in 0..11 :
            t >= lastCall.threshold =>
                LET higher == SearchOp(index, documents, metadata, lastCall.query,
                                       lastCall.k, t)
                IN  /\ ~higher.raised
                    /\ Len(higher.list) <= Len(results)
                    /\ \A i \in 1..Len(higher.list) :
                          \E j \in 1..Len(results) : results[j] = higher.list[i]

\* a search at threshold 0 that returned more than the same search at 1.0 would
C5_Witness ==
    /\ lastCall.op = "search"
    /\ outcome = "ok"
    /\ lastCall.threshold = 0
    /\ LET higher == SearchOp(index, documents, metadata, lastCall.query,
                              lastCall.k, 10)
       IN  higher.list # <<>> /\ Len(higher.list) < Len(results)

\* the positions of the stored vectors equal to the embedding of text
SameVector(text) == {i \in 1..Len(index) : index[i] = Embed(text)}

\* the last search returned the document at position i with similarity 1
Returned(i) ==
    \E j \in 1..Len(results) :
        /\ results[j].doc = documents[i]
        /\ results[j].meta = metadata[i]
        /\ IsOne(results[j].sim)

\* C6 as stated: for every ordinal i, a search whose query embeds to exactly
\* the stored vector of document i, with k >= 1 and threshold <= 1, returns
\* document i with similarity 1.
C6_SelfRetrieval ==
    (lastCall.op = "search" /\ outcome = "ok" /\ lastCall.k >= 1
       /\ lastCall.threshold <= 10) =>
        \A i \in SameVector(lastCall.query) : Returned(i)

\* C6 as amended: such a search returns document i with similarity 1 when at
\* most k stored documents have that vector; when more than k have it, it
\* returns k of them, each with similarity 1, and may leave document i out.
C6_SelfRetrievalAmended ==
    (lastCall.op = "search" /\ outcome = "ok" /\ lastCall.k >= 1
       /\ lastCall.threshold <= 10) =>
        LET same == SameVector(lastCall.query)
        IN  /\ Cardinality(same) <= lastCall.k => \A i \in same : Returned(i)
            /\ Cardinality(same) > lastCall.k =>
                  /\ Len(results) = lastCall.k
                  /\ \A j \in 1..Len(results) :
                        /\ IsOne(results[j].sim)
                        /\ \E i \in same : /\ results[j].doc = documents[i]
                                           /\ results[j].meta = metadata[i]

\* a search for a vector that two stored documents share, both returned
C6_Witness ==
    /\ lastCall.op = "search"
    /\ outcome = "ok"
    /\ lastCall.threshold = 10
    /\ Cardinality(SameVector(lastCall.query)) = 2
    /\ lastCall.k >= 2
    /\ \A i \in SameVector(lastCall.query) : Returned(i)

\* C7: saving the store and loading it in a fresh engine yields the saved
\* document list and metadata list, and the same search results for the probes.
C7_RoundTrip ==
    (lastCall.op = "initialize" /\ boot.path = "load" /\ phase = "ready") =>
        /\ documents = saved.documents
        /\ metadata = saved.metadata
        /\ \A q \in Queries, k \in Ks, t \in Thresholds :
              SearchOp(index, documents, metadata, q, k, t)
                  = SearchOp(saved.index, saved.documents, saved.metadata, q, k, t)

\* a fresh engine has loaded a store that holds a document added at run time
C7_Witness ==
    /\ lastCall.op = "initialize"
    /\ boot.path = "load"
    /\ phase = "ready"
    /\ Len(documents) > Len(KnowledgeBase)
    /\ SearchOp(index, documents, metadata, QueryCerts, 5, 0).list # <<>>

\* the triple a save of the default knowledge base writes
FreshTriple ==
    /\ dIndex = [exists |-> TRUE, bytes |-> WriteIndex(PopulateKnowledgeBase.index)]
    /\ dDocs = [exists |-> TRUE,
                bytes |-> PickleDump(PopulateKnowledgeBase.documents, BlankDoc)]
    /\ dMeta = [exists |-> TRUE,
                bytes |-> PickleDump(PopulateKnowledgeBase.metadata, BlankMeta)]

\* the engine is ready on the rebuilt default knowledge base
RebuiltDefault ==
    /\ phase = "ready"
    /\ outcome = "ok"
    /\ boot.path = "build"
    /\ index = PopulateKnowledgeBase.index
    /\ documents = PopulateKnowledgeBase.documents
    /\ metadata = PopulateKnowledgeBase.metadata
    /\ FreshTriple

\* C8: on initialization, if any one of the three artifacts is missing, the
\* engine rebuilds the default knowledge base, writes a fresh triple and ends
\* ready without an error (the writes themselves succeeding).
C8_MissingArtifactRebuilds ==
    (lastCall.op = "initialize" /\ lastCall.fault = NoFault /\ boot.missing # {})
        => RebuiltDefault

\* C9: on initialization, if an artifact exists but is corrupt or truncated,
\* the engine discards the triple, rebuilds the default knowledge base and is
\* ready; the load does not end in a failure that ends the process.
C9_CorruptArtifactRebuilds ==
    (lastCall.op = "initialize" /\ lastCall.fault = NoFault /\ boot.corrupt # {})
        => RebuiltDefault

StoreAligned(idx, docs, meta) ==
    /\ Len(idx) = Len(docs)
    /\ Len(docs) = Len(meta)
    /\ \A i \in 1..Len(docs) : idx[i] = Embed(docs[i])

\* C10: when the disk write fails during add_document or
\* update_from_conversation, the call ends with the error for its caller, the
\* engine stays up, and the index, the document list and the metadata list
\* have the new entry at their end and are aligned if they were.
C10_SaveFailureKeepsMemory ==
    [][ (/\ lastCall'.op \in {"add_document", "update_from_conversation"}
         /\ lastCall'.fault.kind = "io"
         /\ clock' = clock + 1)
        => /\ outcome' = "error"
           /\ phase' = "ready"
           /\ index' = Append(index, Embed(LastContent(lastCall')))
           /\ documents' = Append(documents, LastContent(lastCall'))
           /\ Len(metadata') = Len(metadata) + 1
           /\ SubSeq(metadata', 1, Len(metadata)) = metadata
           /\ metadata'[Len(metadata')].index = Len(documents)
           /\ (StoreAligned(index, documents, metadata)
                 => StoreAligned(index', documents', metadata')) ]_vars

\* an update_from_conversation whose save failed: the caller has the error,
\* the memory has the entry, the document file does not
C10_Witness ==
    /\ lastCall.op = "update_from_conversation"
    /\ lastCall.fault.kind = "io"
    /\ outcome = "error"
    /\ phase = "ready"
    /\ StoreAligned(index, documents, metadata)
    /\ documents[Len(documents)] = QAText(lastCall.query, lastCall.response)
    /\ PickleWellFormed(dDocs.bytes)
    /\ Len(PickleLoad(dDocs.bytes)) < Len(documents)

IsPrefix(s, t) == Len(s) <= Len(t) /\ SubSeq(t, 1, Len(s)) = s

\* C11: update_from_conversation inserts exactly when the effectiveness is
\* above 0.7 (7 tenths). At 0.7 or below the index, the documents, the
\* metadata and the three files stay as they were; above it each of the three
\* lists grows by exactly one entry, the old entries kept, and the files are
\* written.
C11_LearnsOnlyAboveThreshold ==
    [][ lastCall'.op = "update_from_conversation"
        => IF lastCall'.effectiveness > 7
           THEN /\ Len(index') = Len(index) + 1
                /\ Len(documents') = Len(documents) + 1
                /\ Len(metadata') = Len(metadata) + 1
                /\ IsPrefix(index, index')
                /\ IsPrefix(documents, documents')
                /\ IsPrefix(metadata, metadata')
                /\ documents'[Len(documents')] = LastContent(lastCall')
                /\ PickleLoad(dDocs'.bytes) = documents'
           ELSE UNCHANGED <<index, documents, metadata, dIndex, dDocs, dMeta>>
      ]_vars

\* an update_from_conversation at exactly 0.7 after an earlier insertion:
\* the store still holds the knowledge base and that one entry
C11_Witness ==
    /\ lastCall.op = "update_from_conversation"
    /\ lastCall.effectiveness = 7
    /\ outcome = "ok"
    /\ phase = "ready"
    /\ clock = 1
    /\ Len(documents) = Len(KnowledgeBase) + 1
    /\ PickleLoad(dDocs.bytes) = documents

\* the last call put an entry in the store
Inserted ==
    \/ lastCall.op = "add_document"
    \/ lastCall.op = "update_from_conversation" /\ lastCall.effectiveness > 7

\* C12: whenever add_document returns to its caller without an error (called
\* directly or by update_from_conversation), the three files hold exactly the
\* index, the document list and the metadata list of the memory, the new entry
\* included.
C12_PersistedOnReturn ==
    (Inserted /\ outcome = "ok")
        => /\ dIndex.exists /\ dDocs.exists /\ dMeta.exists
           /\ IndexWellFormed(dIndex.bytes)
           /\ PickleWellFormed(dDocs.bytes)
           /\ PickleWellFormed(dMeta.bytes)
           /\ ReadIndex(dIndex.bytes) = index
           /\ PickleLoad(dDocs.bytes) = documents
           /\ PickleLoad(dMeta.bytes) = metadata
           /\ documents[Len(documents)] = LastContent(lastCall)

\* the second insertion was a direct add_document and has returned: the
\* files hold both entries
C12_Witness ==
    /\ lastCall.op = "add_document"
    /\ outcome = "ok"
    /\ clock = 2
    /\ Len(documents) = Len(KnowledgeBase) + 2
    /\ Len(PickleLoad(dMeta.bytes)) = Len(KnowledgeBase) + 2
    /\ ReadIndex(dIndex.bytes) = index

C14_AppendOnly ==
    [][ (phase = "ready" /\ phase' = "ready")
        => /\ IsPrefix(index, index')
           /\ IsPrefix(documents, documents')
           /\ IsPrefix(metadata, metadata') ]_vars

\* two entries were added one after the other: the knowledge base and the
\* first of them are where they were
C14_Witness ==
    /\ phase = "ready"
    /\ clock = 2
    /\ Len(documents) = Len(KnowledgeBase) + 2
    /\ \A i \in 1..Len(KnowledgeBase) : documents[i] = KnowledgeBase[i].content
    /\ documents[Len(KnowledgeBase) + 1] = added[1].content
    /\ metadata[Len(KnowledgeBase) + 1].added_at = 0

\* C15: a search with k <= 0 returns the empty list and raises nothing,
\* whatever the query, the threshold and the store.
C15_NonPositiveKIsEmpty ==
    (lastCall.op = "search" /\ lastCall.k <= 0)
        => (outcome = "ok" /\ results = <<>>)

\* C16: a search on an engine whose index holds no vector returns the empty
\* list and raises nothing, for every query, every k >= 1 and every threshold.
C16_EmptyIndexIsEmpty ==
    (lastCall.op = "search" /\ lastCall.k >= 1 /\ phase = "ready" /\ index = <<>>)
        => (outcome = "ok" /\ results = <<>>)

\* a search with k = 5 and threshold 0 on the empty index: the five slots
\* come back unfilled, their similarity clears the threshold, none is looked up
C16_Witness ==
    /\ lastCall.op = "search"
    /\ lastCall.k = 5
    /\ lastCall.threshold = 0
    /\ phase = "ready"
    /\ index = <<>>
    /\ \A n \in 1..5 : IndexSearch(index, Embed(lastCall.query), 5)[n].id = -1
    /\ outcome = "ok"
    /\ results = <<>>

\* C17: get_context_for_query returns the empty string whenever max_length is
\* below 1 or no candidate clears the default threshold, whatever the store
\* holds, documents with an empty text included.
C17_EmptyContext ==
    (/\ lastCall.op = "get_context_for_query"
     /\ outcome = "ok"
     /\ \/ lastCall.max_length < 1
        \/ SearchOp(index, documents, metadata, lastCall.query,
                    DefaultK, DefaultThreshold).list = <<>>)
        => context = ""

\* C18: a give-more-detail message on a session whose last_full_response is
\* not empty returns exactly that stored answer, and the turn makes no call
\* on the retrieval engine (no search, no get_context_for_query, no
\* update_from_conversation): the store and its files stay as they were.
C18_FollowUpReturnsStored ==
    [][ (/\ turn'.message = MessageMore
         /\ turn'.session_id \in DOMAIN conversation_context
         /\ conversation_context[turn'.session_id].last_full_response # "")
        => /\ turn'.response
                = conversation_context[turn'.session_id].last_full_response
           /\ turn'.intent = "detailed"
           /\ turn'.engine_calls = <<>>
           /\ conversation_context' = conversation_context
           /\ UNCHANGED <<index, documents, metadata, dIndex, dDocs, dMeta, clock>>
      ]_vars

\* the follow-up, which is praise as well, came after a question answered by
\* the model: it returned that answer and the engine learnt nothing
C18_Witness ==
    /\ turn.message = MessageMore
    /\ turn.followup
    /\ turn.session_id \in DOMAIN conversation_context
    /\ conversation_context[turn.session_id].last_query = QueryWho
    /\ turn.response = ReplyLong
    /\ conversation_context[turn.session_id].last_full_response = ReplyLong
    /\ turn.engine_calls = <<>>
    /\ Len(documents) = Len(KnowledgeBase)

\* C19: the entry of a session is created by the first message with its
\* identifier and by nothing else, and after every turn that is not a
\* follow-up and has produced its full answer, the session's last_query is
\* the message of the turn and its last_full_response that full answer; the
\* entries of the other sessions stay as they were.
C19_SessionFollowsTurn ==
    [][ IF phase = "ready"
        THEN /\ DOMAIN conversation_context'
                   = DOMAIN conversation_context \cup {turn'.session_id}
             /\ \A s \in DOMAIN conversation_context \ {turn'.session_id} :
                   conversation_context'[s] = conversation_context[s]
             /\ (turn'.session_id \notin DOMAIN conversation_context
                   /\ ~turn'.answered)
                  => conversation_context'[turn'.session_id] = NewSession
             /\ (turn'.answered /\ ~turn'.followup)
                  => /\ conversation_context'[turn'.session_id].last_query
                          = turn'.message
                     /\ conversation_context'[turn'.session_id].last_full_response
                          = turn'.full_response
                     /\ turn'.full_response # ""
        ELSE conversation_context' = conversation_context
      ]_vars

\* two sessions, each with the query and the answer of its own last turn
C19_Witness ==
    /\ turn.session_id = "s1"
    /\ turn.answered /\ ~turn.followup
    /\ turn.message = QueryWho
    /\ DOMAIN conversation_context = {"s1", "s2"}
    /\ conversation_context["s1"].last_query = QueryWho
    /\ conversation_context["s1"].last_full_response = turn.full_response
    /\ turn.full_response # ReplyLong
    /\ conversation_context["s2"].last_query = MessageMore
    /\ conversation_context["s2"].last_full_response = ReplyLong

\* the three parts of the store line up
LiveStoreAligned ==
    /\ Len(index) = Len(documents)
    /\ Len(metadata) = Len(documents)
    /\ \A i \in 1..Len(documents) :
          /\ index[i] = Embed(documents[i])
          /\ metadata[i].index = i - 1

AllIdle == \A t \in Threads : threads.run[t].pc = "idle"

\* C20: add_document calls that never ran at the same time leave the store
\* aligned whenever none is in flight (equal lengths, the vector of position
\* i is the one of document i, the ordinal is the position), so the breaks of
\* the alignment are those of calls that overlapped; and two calls that did
\* overlap can break it (C20_Witness): the lengths differ after both have
\* returned, where every later call sees them, and a metadata entry records
\* an ordinal that is not its position.
C20_AlignedUnlessOverlapped ==
    (phase = "ready" /\ AllIdle /\ ~threads.overlapped) => LiveStoreAligned

\* two overlapping calls have returned: one vector was lost under the other,
\* the last two metadata entries carry the same ordinal, and the metadata of
\* the last position is that of the document before it
C20_Witness ==
    /\ phase = "ready"
    /\ AllIdle
    /\ threads.overlapped
    /\ Len(added) = Len(KnowledgeBase) + 2
    /\ Len(index) < Len(documents)
    /\ Len(metadata) = Len(documents)
    /\ metadata[Len(metadata)].index = metadata[Len(metadata) - 1].index
    /\ metadata[Len(metadata) - 1].index # Len(metadata) - 2
    /\ documents[Len(documents)] = TextAws
    /\ metadata[Len(metadata)].category = "personal"

\* the first n results as whole blocks, joined as the context joins them
RECURSIVE WholeBlocks(_, _)
WholeBlocks(rs, n) ==
    IF n = 0 THEN ""
    ELSE IF n = 1 THEN Block(rs[1])
    ELSE WholeBlocks(rs, n - 1) \o "\n\n" \o Block(rs[n])

\* the string s continued by a prefix of the block of r cut inside its text
\* and closed by the ellipsis marker
EndsTruncated(text, s, r) ==
    \E m \in 0..(Len(r.doc) - 1) :
        text = s \o (IF s = "" THEN "" ELSE "\n\n")
                 \o "[" \o CategoryTag(r.meta.category) \o "] "
                 \o SubSeq(r.doc, 1, m) \o Ellipsis

\* C21: the context get_context_for_query returns is the blocks
\* '[CATEGORY] text' of the first n ranked results, each whole, where n is the
\* largest number of blocks that fit in max_length; it is followed by at most
\* one truncated prefix, of block n + 1, closed by the ellipsis marker, and
\* that only if more than 100 characters of the budget remain; no later
\* block is included.
C21_BlocksWhileTheyFit ==
    (lastCall.op = "get_context_for_query" /\ outcome = "ok") =>
        LET rs == SearchOp(index, documents, metadata, lastCall.query,
                           DefaultK, DefaultThreshold).list
        IN  \E n \in 0..Len(rs) :
                /\ n > 0 => Len(WholeBlocks(rs, n)) <= lastCall.max_length
                /\ n < Len(rs) => Len(WholeBlocks(rs, n + 1)) > lastCall.max_length
                /\ \/ context = WholeBlocks(rs, n)
                   \/ /\ n < Len(rs)
                      /\ lastCall.max_length - Len(WholeBlocks(rs, n))
                            > MeaningfulRemainder
                      /\ EndsTruncated(context, WholeBlocks(rs, n), rs[n + 1])

Min(a, b) == IF a <= b THEN a ELSE b

\* the positions (from 0) of the stored entries a result list holds
ReturnedOrdinals == {results[j].meta.index : j \in 1..Len(results)}

\* C22: with a threshold of 0 or less, search(query, k) for a number k >= 1
\* of results on a store of n vectors returns exactly min(k, n) results, and
\* they are stored entries none of which is farther from the query vector
\* than an entry left out.
C22_NearestMinKN ==
    (lastCall.op = "search" /\ lastCall.threshold <= 0 /\ lastCall.k >= 1) =>
        /\ outcome = "ok"
        /\ Len(results) = Min(lastCall.k, Len(index))
        /\ Cardinality(ReturnedOrdinals) = Len(results)
        /\ \A j \in 1..Len(results) :
              /\ results[j].meta.index \in 0..(Len(documents) - 1)
              /\ results[j].doc = documents[results[j].meta.index + 1]
              /\ results[j].meta = metadata[results[j].meta.index + 1]
              /\ results[j].sim
                    = Similarity(Distance(index[results[j].meta.index + 1],
                                          Embed(lastCall.query)))
        /\ \A i \in (0..(Len(index) - 1)) \ ReturnedOrdinals :
              \A j \in ReturnedOrdinals :
                  Distance(index[i + 1], Embed(lastCall.query))
                      >= Distance(index[j + 1], Embed(lastCall.query))

\* two of four stored entries were asked for: the two returned are nearer
\* than one left out
C22_Witness ==
    /\ lastCall.op = "search"
    /\ lastCall.threshold = 0
    /\ lastCall.k = 2
    /\ outcome = "ok"
    /\ Len(index) = 4
    /\ Len(results) = 2
    /\ \E i \in (0..(Len(index) - 1)) \ ReturnedOrdinals :
          \A j \in ReturnedOrdinals :
              Distance(index[i + 1], Embed(lastCall.query))
                  > Distance(index[j + 1], Embed(lastCall.query))

\* the place (from 1) of the stored entry of ordinal id among the candidates
\* index.search returned for the last search
RankOf(id) ==
    LET cands == IndexSearch(index, Embed(lastCall.query), lastCall.k)
    IN  CHOOSE n \in 1..Len(cands) : cands[n].id = id

EqualKeys(a, b) == KeyGeq(a, b) /\ KeyGeq(b, a)

\* C23: two results of a search whose importance x similarity are equal stand
\* in the order in which the index returned them, the nearer one first.
C23_TiesKeepIndexOrder ==
    (lastCall.op = "search" /\ outcome = "ok") =>
        \A i, j \in 1..Len(results) :
            (i < j /\ EqualKeys(results[i], results[j])) =>
                /\ RankOf(results[i].meta.index) < RankOf(results[j].meta.index)
                /\ results[i].sim[1] * results[j].sim[2]
                     >= results[j].sim[1] * results[i].sim[2]

\* an entry of importance 0.8 at distance 0 and one of importance 1.0 at
\* similarity 0.8 have equal keys: the nearer one comes first
C23_Witness ==
    /\ lastCall.op = "search"
    /\ outcome = "ok"
    /\ \E i, j \in 1..Len(results) :
          /\ i < j
          /\ EqualKeys(results[i], results[j])
          /\ results[i].meta.importance < results[j].meta.importance
          /\ results[i].sim[1] * results[j].sim[2]
               > results[j].sim[1] * results[i].sim[2]

\* the last call was an update_from_conversation that inserted
LearntLast ==
    /\ lastCall.op = "update_from_conversation"
    /\ lastCall.effectiveness > LearningThreshold
    /\ outcome = "ok"
    /\ Len(metadata) > Len(KnowledgeBase)

LastKeywords == metadata[Len(metadata)].keywords

ElementsOf(seq) == {seq[i] : i \in 1..Len(seq)}

\* the places of the categories with a trigger among the words ws
Triggered(ws) ==
    {m \in 1..Len(category_keywords) : category_keywords[m].triggers \cap ws # {}}

\* C24: the category of a document update_from_conversation inserted is the
\* first of experience, skills, projects, education, personal with a trigger
\* among the keywords of the document (those extracted from the query), and
\* general when no category has one.
C24_FirstTriggeredCategory ==
    /\ [m \in 1..Len(category_keywords) |-> category_keywords[m].cat]
          = <<"experience", "skills", "projects", "education", "personal">>
    /\ LearntLast =>
          LET hits == Triggered(ElementsOf(LastKeywords))
          IN  /\ ElementsOf(LastKeywords) \subseteq KeywordSet(lastCall.query)
              /\ hits = {} => metadata[Len(metadata)].category = "general"
              /\ hits # {} =>
                    \E m \in hits :
                        /\ \A h \in hits : m <= h
                        /\ metadata[Len(metadata)].category = category_keywords[m].cat

\* the query had triggers of experience, skills and personal: the document
\* is filed under experience; the one before it had lost its only trigger to
\* the cap of the keywords and is filed under general
C24_Witness ==
    /\ LearntLast
    /\ lastCall.query = QuerySeveral
    /\ ElementsOf(LastKeywords) = {"like", "tool", "work"}
    /\ metadata[Len(metadata)].category = "experience"
    /\ Len(metadata) = Len(KnowledgeBase) + 2
    /\ documents[Len(documents) - 1] = "Q: " \o QueryLong \o "\nA: " \o ResponseShort
    /\ "hobby" \notin ElementsOf(metadata[Len(metadata) - 1].keywords)
    /\ metadata[Len(metadata) - 1].category = "general"

\* C25: the last entry of the store after update_from_conversation inserted
\* has the text 'Q: {query}\nA: {response}', the keywords extracted from the
\* query (all of them up to the cap of 10, each once) and the effectiveness
\* as its importance.
C25_LearntEntry ==
    LearntLast =>
        /\ Len(documents) = Len(metadata)
        /\ documents[Len(documents)]
              = "Q: " \o lastCall.query \o "\nA: " \o lastCall.response
        /\ ElementsOf(LastKeywords) \subseteq KeywordSet(lastCall.query)
        /\ Len(LastKeywords)
              = Min(MaxKeywords, Cardinality(KeywordSet(lastCall.query)))
        /\ Cardinality(ElementsOf(LastKeywords)) = Len(LastKeywords)
        /\ metadata[Len(metadata)].importance = lastCall.effectiveness

C25_Witness ==
    /\ LearntLast
    /\ lastCall.query = QueryWork
    /\ lastCall.response = ResponseShort
    /\ documents[Len(documents)] = "Q: his work at cash4you?\nA: He works on ML."
    /\ LastKeywords = <<"work", "his">>
    /\ metadata[Len(metadata)].importance = 9
    /\ metadata[Len(metadata)].category = "experience"

\* t is a run of letters of the text s with no letter, digit or underscore
\* on either side
IsAlphabeticToken(t, s) ==
    /\ t # ""
    /\ \A i \in 1..Len(t) : IsLetter(CharAt(t, i))
    /\ \E p \in 1..(Len(s) - Len(t) + 1) :
          /\ SubSeq(s, p, p + Len(t) - 1) = t
          /\ p = 1 \/ ~IsWordChar(CharAt(s, p - 1))
          /\ p + Len(t) > Len(s) \/ ~IsWordChar(CharAt(s, p + Len(t)))

\* C26: the keywords extract_keywords returned for the text of the query, as
\* the inserted document records them, are at most 10, pairwise distinct,
\* each a run of lowercase letters of the lowered text longer than 2
\* characters and not a stop word; the call returns, with no keyword when no
\* token qualifies.
C26_KeywordsWellFormed ==
    (lastCall.op = "update_from_conversation"
       /\ lastCall.effectiveness > LearningThreshold) =>
        /\ outcome = "ok"
        /\ Len(metadata) > Len(KnowledgeBase)
        /\ Len(LastKeywords) <= 10
        /\ \A i, j \in 1..Len(LastKeywords) :
              LastKeywords[i] = LastKeywords[j] => i = j
        /\ \A i \in 1..Len(LastKeywords) :
              /\ IsAlphabeticToken(LastKeywords[i], Lower(lastCall.query))
              /\ Len(LastKeywords[i]) > 2
              /\ LastKeywords[i] \notin stop_words

\* a text of eleven keywords gave ten, the first one dropped; the document
\* before it came from a text without a keyword
C26_Witness ==
    /\ LearntLast
    /\ lastCall.query = QueryLong
    /\ Len(LastKeywords) = 10
    /\ LastKeywords[1] = "art"
    /\ "hobby" \notin ElementsOf(LastKeywords)
    /\ Len(metadata) = Len(KnowledgeBase) + 2
    /\ documents[Len(documents) - 1] = "Q: " \o QueryNone \o "\nA: " \o ResponseShort
    /\ metadata[Len(metadata) - 1].keywords = <<>>

\* C27: a call of search or of get_context_for_query, whatever its query, k,
\* threshold and max_length and whether it returns or raises, leaves the
\* index, the document list, the metadata list and the three files as they
\* were.
C27_ReadsLeaveStore ==
    [][ lastCall'.op \in {"search", "get_context_for_query"}
          => UNCHANGED <<index, documents, metadata, dIndex, dDocs, dMeta>>
      ]_vars

\* a search returned entries of a store of four documents, one of them of an
\* importance below 1.0, and the store and its files are what the last
\* add_document left
C27_Witness ==
    /\ lastCall.op = "search"
    /\ outcome = "ok"
    /\ Len(documents) = Len(KnowledgeBase) + 2
    /\ \E j \in 1..Len(results) : results[j].meta.importance < 10
    /\ \A i \in 1..Len(metadata) : metadata[i].importance = added[i].importance
    /\ saved = [index |-> index, documents |-> documents, metadata |-> metadata]
    /\ PickleLoad(dMeta.bytes) = metadata
    /\ PickleLoad(dDocs.bytes) = documents
    /\ ReadIndex(dIndex.bytes) = index

\* C28: an add_document that raises before it persists, at the embedding
\* call or at index.add, called directly or by update_from_conversation,
\* leaves the index, the document list and the metadata list as they were
\* (and so as long as one another), and the files too.
C28_FailedAddLeavesStore ==
    [][ (/\ lastCall'.op \in {"add_document", "update_from_conversation"}
         /\ lastCall'.fault \in EarlyFaults)
        => /\ outcome' = "error"
           /\ UNCHANGED <<index, documents, metadata, dIndex, dDocs, dMeta>>
           /\ Len(index') = Len(documents')
           /\ Len(documents') = Len(metadata')
      ]_vars

\* the index rejected the vector of a second document: the store holds the
\* first one only, vector, text and metadata
C28_Witness ==
    /\ lastCall.op = "add_document"
    /\ lastCall.fault.kind = "dimension"
    /\ lastCall.query = TextAws
    /\ outcome = "error"
    /\ Len(index) = Len(KnowledgeBase) + 1
    /\ Len(documents) = Len(KnowledgeBase) + 1
    /\ Len(metadata) = Len(KnowledgeBase) + 1
    /\ documents[Len(documents)] = TextPersonal
    /\ PickleLoad(dDocs.bytes) = documents

\* C29: a chat turn that ends in the error fallback (intent 'error') leaves
\* last_query and last_full_response of its session as they were before the
\* turn, empty for a session created by the turn, wherever the turn failed.
C29_ErrorTurnKeepsSession ==
    [][ (phase = "ready" /\ turn'.intent = "error") =>
          IF turn'.session_id \in DOMAIN conversation_context
          THEN /\ conversation_context'[turn'.session_id].last_query
                    = conversation_context[turn'.session_id].last_query
               /\ conversation_context'[turn'.session_id].last_full_response
                    = conversation_context[turn'.session_id].last_full_response
          ELSE /\ conversation_context'[turn'.session_id].last_query = ""
               /\ conversation_context'[turn'.session_id].last_full_response = ""
      ]_vars

\* the pair (query, answer) was stored by one turn on session s
FromOneTurn(s, query, response) ==
    \E a \in requests.made :
        a.session_id = s /\ a.query = query /\ a.response = response

NoRequestInFlight == \A t \in Threads : requests.run[t].pc = "idle"

\* C30: whenever no turn is in flight, also after turns that ran at the same
\* time on one session identifier, last_query and last_full_response of a
\* session that has an answer were stored by the same turn, and the answer
\* and the query a follow-up read for its reply came from the same turn.
C30_SessionFromOneTurn ==
    /\ NoRequestInFlight =>
          \A s \in DOMAIN conversation_context :
              conversation_context[s].last_full_response # ""
                => FromOneTurn(s, conversation_context[s].last_query,
                               conversation_context[s].last_full_response)
    /\ requests.served # NoServed =>
          FromOneTurn(requests.served.session_id, requests.served.query,
                      requests.served.response)

====
